---- MODULE Spec2Model ----
(***************************************************************************)
(* Model of the shadow arbitrage evaluator (bot/src/bin/shadow_route.rs):  *)
(* the per-block main loop, the ShadowStats aggregator and the             *)
(* ErrorLogGate, with the pure helpers they call.                          *)
(*                                                                         *)
(* Conventions                                                             *)
(*   - Option<T> is a sequence: <<>> is None, <<v>> is Some(v).            *)
(*   - A Rust string that the code splits or assembles is a sequence of    *)
(*     fragments; the fragment ":" is the colon character and every other  *)
(*     fragment is a run of characters holding no colon.  Numbers are      *)
(*     rendered with ToString, as u64/U256 Display does.                   *)
(*   - U256 is scaled to U256Bits bits and the saturating u64 counters     *)
(*     (stats, suppressed, processed_blocks) to U64Bits bits; every        *)
(*     saturating operation saturates at the scaled maximum.  Other u64    *)
(*     values (block numbers, timestamps, basis points) take part in no    *)
(*     operation that can overflow and are plain integers.                 *)
(*   - Monotonic time (Instant) is an integer number of milliseconds.      *)
(***************************************************************************)
EXTENDS Integers, Sequences, FiniteSets, TLC

VARIABLES
    pc,                \* await point of main: "sleep", "block_number", "block",
                       \* "gas_price", "reserves", "v3_quote", "done"
    idx,               \* index in input_sizes of the size whose V3 quote is awaited
    last_block,        \* Option<u64>
    processed_blocks,  \* u64
    cur,               \* locals of the current iteration (block_number, ...)
    stats,             \* ShadowStats
    gate,              \* ErrorLogGate (infra_error_gate)
    now,               \* Instant::now(), milliseconds
    out,               \* the lines written since the current iteration began,
                       \* stdout and stderr, in order
    hist,              \* the lines written before that, each cut to LineKey
    polls,             \* iterations of the loop started so far (bounds the run)
    max_blocks,        \* Option<u64>, SHADOW_MAX_BLOCKS
    min_profit,        \* U256, config.min_profit_wei
    sigint,            \* ghost: Option of the await point at which a SIGINT reached
                       \* the process in the current iteration
    gate_calls,        \* ghost: calls of ErrorLogGate::log so far
    glog,              \* ghost: what the calls of the gate printed (see GlogInit)
    record_calls,      \* ghost: calls of ShadowStats::record so far (SpecStats)
    call               \* ghost: the latest call of a unit exercised alone, with its
                       \* arguments and what it returned (CallNone in main)

vars == <<pc, idx, last_block, processed_blocks, cur, stats, gate, now, out,
          hist, polls, max_blocks, min_profit, sigint, gate_calls, glog, record_calls,
          call>>

----------------------------------------------------------------------------
(* Bounds and scaled widths *)

U64Bits == 4
U256Bits == 24

U64Max == 2^U64Bits - 1
U256Max == 2^U256Bits - 1

None == <<>>
Some(v) == <<v>>
IsSome(o) == Len(o) = 1
Unwrap(o) == o[1]

Min(a, b) == IF a <= b THEN a ELSE b
Max(a, b) == IF a >= b THEN a ELSE b

\* u64::saturating_add
SatAdd64(a, b) == Min(a + b, U64Max)

\* U256::saturating_add / saturating_mul / checked_div(..).unwrap_or_else(zero)
\* (the product is compared by division, so that no intermediate exceeds U256Max)
SatAdd256_Wrapping(a, b) == (a + b) % (U256Max + 1)
SatAdd256(a, b) == Min(a + b, U256Max)
SatMul256(a, b) ==
    IF a = 0 \/ b = 0 THEN 0
    ELSE IF a > U256Max \div b THEN U256Max ELSE a * b
DivOrZero(a, b) == IF b = 0 THEN 0 ELSE a \div b

----------------------------------------------------------------------------
(* ShadowStats *)

Colon == ":"

RECURSIVE PrefixBeforeColon(_)
PrefixBeforeColon(s) ==
    IF s = <<>> \/ Head(s) = Colon THEN <<>>
    ELSE <<Head(s)>> \o PrefixBeforeColon(Tail(s))

\* reason.split(':').next().unwrap_or(reason)
normalized_reason(reason) == PrefixBeforeColon(reason)

\* No unit has been called
CallNone == [op |-> "none"]

\* ShadowStats::default()
StatsDefault ==
    [blocks_seen |-> 0, rows_emitted |-> 0, would_trade |-> 0, would_skip |-> 0,
     reason_counts |-> <<>>]

\* BTreeMap<String, u64> as a function from its keys; <<>> is the empty map.
MapGet(m, k) == IF k \in DOMAIN m THEN m[k] ELSE 0
MapPut(m, k, v) == [x \in (DOMAIN m) \cup {k} |-> IF x = k THEN v ELSE m[x]]

\* ShadowStats::record, with a counter bug: would_skip is bumped on every call
record_AlwaysSkip(s, decision, reason) ==
    LET key == normalized_reason(reason) IN
    [s EXCEPT !.rows_emitted = SatAdd64(@, 1),
              !.would_trade = IF decision = "would_trade" THEN SatAdd64(@, 1) ELSE @,
              !.would_skip = SatAdd64(@, 1),
              !.reason_counts = MapPut(@, key, SatAdd64(MapGet(@, key), 1))]

\* ShadowStats::record, with the histogram keyed by the whole reason
record_WholeReasonKey(s, decision, reason) ==
    [s EXCEPT !.rows_emitted = SatAdd64(@, 1),
              !.would_trade = IF decision = "would_trade" THEN SatAdd64(@, 1) ELSE @,
              !.would_skip = IF decision = "would_trade" THEN @ ELSE SatAdd64(@, 1),
              !.reason_counts = MapPut(@, reason, SatAdd64(MapGet(@, reason), 1))]

\* ShadowStats::record leaving the histogram as it was
record_NoReasonCount(s, decision, reason) ==
    [s EXCEPT !.rows_emitted = SatAdd64(@, 1),
              !.would_trade = IF decision = "would_trade" THEN SatAdd64(@, 1) ELSE @,
              !.would_skip = IF decision = "would_trade" THEN @ ELSE SatAdd64(@, 1)]

\* ShadowStats::record
record(s, decision, reason) ==
    LET key == normalized_reason(reason) IN
    [s EXCEPT !.rows_emitted = SatAdd64(@, 1),
              !.would_trade = IF decision = "would_trade" THEN SatAdd64(@, 1) ELSE @,
              !.would_skip = IF decision = "would_trade" THEN @ ELSE SatAdd64(@, 1),
              !.reason_counts = MapPut(@, key, SatAdd64(MapGet(@, key), 1))]

----------------------------------------------------------------------------
(* ErrorLogGate *)

MinIntervalMs == 15000

\* ErrorLogGate::new
ErrorLogGate_new(min_interval) ==
    [min_interval |-> min_interval, last_emit |-> None, suppressed |-> 0]

\* Instant::duration_since (saturating at zero)
DurationSince(t, earlier) == IF t >= earlier THEN t - earlier ELSE 0

\* A line on stderr printed by the gate.  suffix is the count of the
\* " (suppressed N similar log lines)" suffix, None when no suffix is printed;
\* at is the instant of the call (not part of the text).
GateLine(kind, prefix, suffix, t) ==
    [stream |-> "stderr", kind |-> kind, prefix |-> prefix, suffix |-> suffix, at |-> t]

\* ErrorLogGate::log with the interval test dropped
ErrorLogGate_log_NoInterval(g, t, prefix) ==
    IF g.suppressed > 0
    THEN [gate |-> [g EXCEPT !.suppressed = 0, !.last_emit = Some(t)],
          lines |-> <<GateLine("log", prefix, Some(g.suppressed), t)>>]
    ELSE [gate |-> [g EXCEPT !.last_emit = Some(t)],
          lines |-> <<GateLine("log", prefix, None, t)>>]

\* ErrorLogGate::log that forgets to reset suppressed when it prints it
ErrorLogGate_log_NoReset(g, t, prefix) ==
    LET should_emit ==
            \/ g.last_emit = None
            \/ DurationSince(t, Unwrap(g.last_emit)) >= g.min_interval
    IN  IF should_emit
        THEN IF g.suppressed > 0
             THEN [gate |-> [g EXCEPT !.last_emit = Some(t)],
                   lines |-> <<GateLine("log", prefix, Some(g.suppressed), t)>>]
             ELSE [gate |-> [g EXCEPT !.last_emit = Some(t)],
                   lines |-> <<GateLine("log", prefix, None, t)>>]
        ELSE [gate |-> [g EXCEPT !.suppressed = SatAdd64(@, 1)], lines |-> <<>>]

\* ErrorLogGate::log at instant t: the gate afterwards and the lines printed
ErrorLogGate_log(g, t, prefix) ==
    LET should_emit ==
            \/ g.last_emit = None
            \/ DurationSince(t, Unwrap(g.last_emit)) >= g.min_interval
    IN  IF should_emit
        THEN IF g.suppressed > 0
             THEN [gate |-> [g EXCEPT !.suppressed = 0, !.last_emit = Some(t)],
                   lines |-> <<GateLine("log", prefix, Some(g.suppressed), t)>>]
             ELSE [gate |-> [g EXCEPT !.last_emit = Some(t)],
                   lines |-> <<GateLine("log", prefix, None, t)>>]
        ELSE [gate |-> [g EXCEPT !.suppressed = SatAdd64(@, 1)], lines |-> <<>>]

\* ErrorLogGate::flush that prints the count and keeps it
ErrorLogGate_flush_NoReset(g, t, prefix) ==
    IF g.suppressed > 0
    THEN [gate |-> g,
          lines |-> <<GateLine("flush", prefix, Some(g.suppressed), t)>>]
    ELSE [gate |-> g, lines |-> <<>>]

\* ErrorLogGate::flush
ErrorLogGate_flush(g, t, prefix) ==
    IF g.suppressed > 0
    THEN [gate |-> [g EXCEPT !.suppressed = 0],
          lines |-> <<GateLine("flush", prefix, Some(g.suppressed), t)>>]
    ELSE [gate |-> g, lines |-> <<>>]

\* The count a gate line reports: N of its suffix, 0 when it has none.
Reported(line) == IF IsSome(line.suffix) THEN Unwrap(line.suffix) ELSE 0

----------------------------------------------------------------------------
(* Arithmetic helpers and quoting *)

BpsDenominator == 10000

\* fee_from_bps
fee_from_bps(amount, bps) == DivOrZero(SatMul256(amount, bps), BpsDenominator)

\* quote_v2_exact_in reading the reserves in pair order whatever the direction
quote_v2_exact_in_PairOrder(amount_in, reserve0, reserve1, fee_bps, token0_to1) ==
    LET fee_numerator == BpsDenominator - Min(fee_bps, BpsDenominator)
        amount_in_with_fee ==
            DivOrZero(SatMul256(amount_in, fee_numerator), BpsDenominator)
        numerator == SatMul256(amount_in_with_fee, reserve1)
        denominator == SatAdd256(reserve0, amount_in_with_fee)
    IN  IF amount_in = 0 \/ reserve0 = 0 \/ reserve1 = 0 THEN 0
        ELSE IF denominator = 0 THEN 0
        ELSE DivOrZero(numerator, denominator)

\* quote_v2_exact_in charging no fee
quote_v2_exact_in_NoFee(amount_in, reserve0, reserve1, fee_bps, token0_to1) ==
    LET reserve_in == IF token0_to1 THEN reserve0 ELSE reserve1
        reserve_out == IF token0_to1 THEN reserve1 ELSE reserve0
        numerator == SatMul256(amount_in, reserve_out)
        denominator == SatAdd256(reserve_in, amount_in)
    IN  IF amount_in = 0 \/ reserve_in = 0 \/ reserve_out = 0 THEN 0
        ELSE IF denominator = 0 THEN 0
        ELSE DivOrZero(numerator, denominator)

\* quote_v2_exact_in with a denominator that wraps instead of saturating
quote_v2_exact_in_WrappingSum(amount_in, reserve0, reserve1, fee_bps, token0_to1) ==
    LET reserve_in == IF token0_to1 THEN reserve0 ELSE reserve1
        reserve_out == IF token0_to1 THEN reserve1 ELSE reserve0
        fee_numerator == BpsDenominator - Min(fee_bps, BpsDenominator)
        amount_in_with_fee ==
            DivOrZero(SatMul256(amount_in, fee_numerator), BpsDenominator)
        numerator == SatMul256(amount_in_with_fee, reserve_out)
        denominator == SatAdd256_Wrapping(reserve_in, amount_in_with_fee)
    IN  IF amount_in = 0 \/ reserve_in = 0 \/ reserve_out = 0 THEN 0
        ELSE IF denominator = 0 THEN 0
        ELSE DivOrZero(numerator, denominator)

\* quote_v2_exact_in
quote_v2_exact_in(amount_in, reserve0, reserve1, fee_bps, token0_to1) ==
    LET reserve_in == IF token0_to1 THEN reserve0 ELSE reserve1
        reserve_out == IF token0_to1 THEN reserve1 ELSE reserve0
        fee_numerator == BpsDenominator - Min(fee_bps, BpsDenominator)
        amount_in_with_fee ==
            DivOrZero(SatMul256(amount_in, fee_numerator), BpsDenominator)
        numerator == SatMul256(amount_in_with_fee, reserve_out)
        denominator == SatAdd256(reserve_in, amount_in_with_fee)
    IN  IF amount_in = 0 \/ reserve_in = 0 \/ reserve_out = 0 THEN 0
        ELSE IF denominator = 0 THEN 0
        ELSE DivOrZero(numerator, denominator)

\* signed_edge_bps printing a loss without its sign
signed_edge_bps_NoSign(output, total_cost) ==
    IF total_cost = 0 THEN "0"
    ELSE IF output >= total_cost
         THEN ToString(DivOrZero(SatMul256(output - total_cost, BpsDenominator),
                                 total_cost))
         ELSE ToString(DivOrZero(SatMul256(total_cost - output, BpsDenominator),
                                 total_cost))

\* signed_edge_bps: a decimal string
signed_edge_bps(output, total_cost) ==
    IF total_cost = 0 THEN "0"
    ELSE IF output >= total_cost
         THEN ToString(DivOrZero(SatMul256(output - total_cost, BpsDenominator),
                                 total_cost))
         ELSE "-" \o ToString(DivOrZero(SatMul256(total_cost - output, BpsDenominator),
                                        total_cost))

----------------------------------------------------------------------------
(* Configuration of the run: ShadowConfig, ParsedRoute and the environment *)

PollIntervalMs == 7500        \* config.poll_interval_ms
MinPollMs == 250
MaxBlockAgeSecs == 5          \* config.max_block_age_secs
FlashLoanFeeBps == 50         \* config.flash_loan_fee_bps
GasUnitsEstimate == 10        \* config.gas_units_estimate
MaxGasPriceWei == 2           \* config.max_gas_price_wei
MinProfitWei == 100           \* config.min_profit_wei, when it is not 0
V2FeeBps == 30                \* route.v2_fee_bps
SummaryEveryBlocks == 2       \* SHADOW_SUMMARY_EVERY_BLOCKS
MaxBlocksLimit == 2           \* SHADOW_MAX_BLOCKS, when set

input_sizes == <<1000, 2000>>
v2_token0_to1 == TRUE

\* Duration::from_millis(config.poll_interval_ms.max(250))
poll_interval == Max(PollIntervalMs, MinPollMs)

\* env_u64_or_default("SHADOW_SUMMARY_EVERY_BLOCKS", 25).max(1)
summary_every_blocks == Max(SummaryEveryBlocks, 1)

----------------------------------------------------------------------------
(* Lines written *)

\* Reasons, as fragment sequences
R_missing_block == <<"quote_error", Colon, "missing_block">>
R_block_fetch_failed == <<"quote_error", Colon, "block_fetch_failed">>
R_stale_Millis(age) == <<"stale_data", Colon, "block_age_secs=", ToString(age * 1000)>>
R_stale(age) == <<"stale_data", Colon, "block_age_secs=", ToString(age)>>
R_gas_price_failed_BadPool == <<"bad_pool_state", Colon, "gas_price_failed">>
R_gas_price_failed == <<"quote_error", Colon, "gas_price_failed">>
R_v2_reserves_failed == <<"quote_error", Colon, "v2_reserves_failed">>
R_v2_zero_reserve == <<"bad_pool_state", Colon, "v2_zero_reserve">>
R_v2_out_zero == <<"bad_pool_state", Colon, "v2_out_zero">>
R_v3_quoter_failed == <<"quote_error", Colon, "v3_quoter_failed">>
R_gas_too_high == <<"gas_too_high">>
R_below_min_profit == <<"below_min_profit">>
R_edge_above_threshold == <<"edge_above_threshold">>

\* A line of stderr that is neither a gate line nor a summary
InfoLine(text) == [stream |-> "stderr", kind |-> "info", text |-> text]

\* ShadowDecisionLog as printed on stdout.  run_id, ts_unix_ms, network, route
\* and v3_quote_latency_ms are left out; tick and size_ix are not part of the
\* line: they name the iteration (processed_blocks) and the index of the input
\* size the row was written for.
DecisionRow(block, age, input_wei, gas_price_wei, gas_cost_wei, flash_fee_wei, total_cost_wei, v2_out_mid_wei, v3_out_wei, net_wei, edge_bps, decision, reason, tick, size_ix) ==
    [stream |-> "stdout", kind |-> "row", block |-> block, block_age_secs |-> age,
     input_wei |-> input_wei, gas_price_wei |-> gas_price_wei,
     gas_cost_wei |-> gas_cost_wei, flash_fee_wei |-> flash_fee_wei,
     total_cost_wei |-> total_cost_wei, v2_out_mid_wei |-> v2_out_mid_wei,
     v3_out_wei |-> v3_out_wei, net_wei |-> net_wei, edge_bps |-> edge_bps,
     decision |-> decision, reason |-> reason, tick |-> tick, size_ix |-> size_ix]

\* log_route_error: one zero-filled would_skip row per input size, from size i on
RECURSIVE log_route_error_from(_, _, _, _, _, _)
log_route_error_from(i, block, age, row_reason, st, tick) ==
    IF i > Len(input_sizes) THEN [stats |-> st, lines |-> <<>>]
    ELSE LET row == DecisionRow(block, age, ToString(input_sizes[i]), "0", "0", "0",
                                "0", "0", "0", "0", "0", "would_skip", row_reason,
                                tick, i)
             rest == log_route_error_from(i + 1, block, age, row_reason,
                                          record(st, "would_skip", row_reason), tick)
         IN  [stats |-> rest.stats, lines |-> <<row>> \o rest.lines]

\* log_route_error with its rows written from the last input size to the first
log_route_error_Reversed(block, age, row_reason, st, tick) ==
    LET e == log_route_error_from(1, block, age, row_reason, st, tick)
    IN  [stats |-> e.stats,
         lines |-> [i \in 1..Len(e.lines) |-> e.lines[Len(e.lines) + 1 - i]]]

\* log_route_error leaving out the first input size
log_route_error_FromSecond(block, age, row_reason, st, tick) ==
    log_route_error_from(2, block, age, row_reason, st, tick)

\* log_route_error(ctx, reason, detail, stats), row_reason = "{reason}:{detail}"
log_route_error(block, age, row_reason, st, tick) ==
    log_route_error_from(1, block, age, row_reason, st, tick)

\* emit_row leaving the gas cost out of the total cost
emit_row_NoGasInTotal(block, age, input, gas_price, gas_cost, flash_fee, v2_out_mid, v3_out, decision, reason, st, tick, size_ix) ==
    LET total_cost == SatAdd256(input, flash_fee)
        net == IF v3_out > total_cost THEN v3_out - total_cost ELSE 0
        edge_bps == signed_edge_bps(v3_out, total_cost)
    IN  [stats |-> record(st, decision, reason),
         lines |-> <<DecisionRow(block, age, ToString(input), ToString(gas_price),
                                 ToString(gas_cost), ToString(flash_fee),
                                 ToString(total_cost), ToString(v2_out_mid),
                                 ToString(v3_out), ToString(net), edge_bps,
                                 decision, reason, tick, size_ix)>>]

\* emit_row (its Ok path): the row printed and the stats afterwards
emit_row(block, age, input, gas_price, gas_cost, flash_fee, v2_out_mid, v3_out, decision, reason, st, tick, size_ix) ==
    LET total_cost == SatAdd256(SatAdd256(input, flash_fee), gas_cost)
        net == IF v3_out > total_cost THEN v3_out - total_cost ELSE 0
        edge_bps == signed_edge_bps(v3_out, total_cost)
    IN  [stats |-> record(st, decision, reason),
         lines |-> <<DecisionRow(block, age, ToString(input), ToString(gas_price),
                                 ToString(gas_cost), ToString(flash_fee),
                                 ToString(total_cost), ToString(v2_out_mid),
                                 ToString(v3_out), ToString(net), edge_bps,
                                 decision, reason, tick, size_ix)>>]

\* Byte order of the histogram keys the model uses: each is one of these words
\* (listed in ascending order) or the empty string.
KeyWords ==
    <<"bad_pool_state", "below_min_profit", "edge_above_threshold", "gas_too_high",
      "other", "quote_error", "stale_data">>
KeyRank(k) == IF k = <<>> THEN 0 ELSE CHOOSE i \in 1..Len(KeyWords) : KeyWords[i] = k[1]

\* b.1.cmp(&a.1).then_with(|| a.0.cmp(&b.0)): a sorts before b
EntryBefore(a, b) ==
    \/ a.count > b.count
    \/ a.count = b.count /\ KeyRank(a.reason) < KeyRank(b.reason)

\* entries.sort_by(..).into_iter().take(limit)
RECURSIVE SortedTake(_, _)
SortedTake(entries, limit) ==
    IF limit = 0 \/ entries = {} THEN <<>>
    ELSE LET first == CHOOSE a \in entries : \A b \in entries \ {a} : EntryBefore(a, b)
         IN  <<first>> \o SortedTake(entries \ {first}, limit - 1)

\* top_reason_counts taking the last limit entries of the sorted list
top_reason_counts_TakeLast(st, limit) ==
    LET entries == {[reason |-> k, count |-> st.reason_counts[k]] :
                        k \in DOMAIN st.reason_counts}
        all == SortedTake(entries, Cardinality(entries))
    IN  SubSeq(all, Len(all) - Min(limit, Len(all)) + 1, Len(all))

\* top_reason_counts
top_reason_counts(st, limit) ==
    SortedTake({[reason |-> k, count |-> st.reason_counts[k]] :
                    k \in DOMAIN st.reason_counts}, limit)

TopReasonsLimit == 5

\* emit_summary: the ShadowSummaryLog line on stderr
emit_summary(latest_block, summary_kind, st) ==
    <<[stream |-> "stderr", kind |-> "summary", summary_kind |-> summary_kind,
       latest_block |-> latest_block, blocks_seen |-> st.blocks_seen,
       rows_emitted |-> st.rows_emitted, would_trade |-> st.would_trade,
       would_skip |-> st.would_skip,
       top_reasons |-> top_reason_counts(st, TopReasonsLimit)]>>

\* What hist keeps of a line: of a decision row its block, iteration and size,
\* of a summary its kind and block, of a gate line its count
LineKey(line) ==
    IF line.kind = "row"
    THEN [kind |-> "row", block |-> line.block, tick |-> line.tick,
          size_ix |-> line.size_ix]
    ELSE IF line.kind = "summary"
    THEN [kind |-> "summary", summary_kind |-> line.summary_kind,
          latest_block |-> line.latest_block]
    ELSE IF line.kind \in {"log", "flush"}
    THEN [kind |-> line.kind, suffix |-> line.suffix, at |-> line.at]
    ELSE [kind |-> line.kind]

LineKeys(lines) == [i \in 1..Len(lines) |-> LineKey(lines[i])]

\* Every line written so far, each cut to LineKey
AllLines == hist \o LineKeys(out)

----------------------------------------------------------------------------
(* The main loop of shadow_route: pure parts *)

\* The classification ladder with the second rung testing < instead of <=
classify_StrictBelow(gas_price, v3_out, total_cost, min_profit_wei) ==
    IF gas_price > MaxGasPriceWei
    THEN [decision |-> "would_skip", reason |-> R_gas_too_high]
    ELSE IF v3_out < total_cost
    THEN [decision |-> "would_skip", reason |-> R_below_min_profit]
    ELSE IF v3_out - total_cost < min_profit_wei
    THEN [decision |-> "would_skip", reason |-> R_below_min_profit]
    ELSE [decision |-> "would_trade", reason |-> R_edge_above_threshold]

\* The classification ladder with the last rung naming the reason of the rung
\* before it
classify_WrongTradeReason(gas_price, v3_out, total_cost, min_profit_wei) ==
    IF gas_price > MaxGasPriceWei
    THEN [decision |-> "would_skip", reason |-> R_gas_too_high]
    ELSE IF v3_out <= total_cost
    THEN [decision |-> "would_skip", reason |-> R_below_min_profit]
    ELSE IF v3_out - total_cost < min_profit_wei
    THEN [decision |-> "would_skip", reason |-> R_below_min_profit]
    ELSE [decision |-> "would_trade", reason |-> R_below_min_profit]

\* The classification ladder of one input size, once its V3 quote is known
classify(gas_price, v3_out, total_cost, min_profit_wei) ==
    IF gas_price > MaxGasPriceWei
    THEN [decision |-> "would_skip", reason |-> R_gas_too_high]
    ELSE IF v3_out <= total_cost
    THEN [decision |-> "would_skip", reason |-> R_below_min_profit]
    ELSE IF v3_out - total_cost < min_profit_wei
    THEN [decision |-> "would_skip", reason |-> R_below_min_profit]
    ELSE [decision |-> "would_trade", reason |-> R_edge_above_threshold]

\* Locals of one iteration of the loop
CurDefault ==
    [block_number |-> 0, block_age_secs |-> 0, gas_price |-> 0,
     reserve0 |-> 0, reserve1 |-> 0]

gas_cost_of(c) == SatMul256(c.gas_price, GasUnitsEstimate)
flash_fee_of(input) == fee_from_bps(input, FlashLoanFeeBps)
v2_out_mid_of(c, input) ==
    quote_v2_exact_in(input, c.reserve0, c.reserve1, V2FeeBps, v2_token0_to1)

\* The for loop awaiting the V3 quote of a size whose V2 quote is zero
for_input_sizes_QuoteZero(i, c, st, tick) ==
    [stats |-> st, lines |-> <<>>, await |-> IF i > Len(input_sizes) THEN 0 ELSE i]

\* The body of "for input in &input_sizes" from size i up to its next await:
\* await is the index of the size whose V3 quote is now pending, 0 when the
\* for loop has ended.
RECURSIVE for_input_sizes(_, _, _, _)
for_input_sizes(i, c, st, tick) ==
    IF i > Len(input_sizes) THEN [stats |-> st, lines |-> <<>>, await |-> 0]
    ELSE IF v2_out_mid_of(c, input_sizes[i]) = 0
    THEN LET e == emit_row(c.block_number, c.block_age_secs, input_sizes[i],
                           c.gas_price, gas_cost_of(c), flash_fee_of(input_sizes[i]),
                           0, 0, "would_skip", R_v2_out_zero, st, tick, i)
             rest == for_input_sizes(i + 1, c, e.stats, tick)
         IN  [stats |-> rest.stats, lines |-> e.lines \o rest.lines,
              await |-> rest.await]
    ELSE [stats |-> st, lines |-> <<>>, await |-> i]

\* After the loop, with the flush after the final summary
post_loop_FlushLast(st, g, lb, t) ==
    LET f == ErrorLogGate_flush(g, t, "shadow infra errors")
    IN  [gate |-> f.gate,
         lines |-> emit_summary(IF IsSome(lb) THEN Unwrap(lb) ELSE 0, "final", st)
                   \o f.lines]

\* After the loop: flush the gate, emit the final summary
post_loop(st, g, lb, t) ==
    LET f == ErrorLogGate_flush(g, t, "shadow infra errors")
    IN  [gate |-> f.gate,
         lines |-> f.lines
                   \o emit_summary(IF IsSome(lb) THEN Unwrap(lb) ELSE 0, "final", st)]

\* The end of an iteration writing a periodic summary whatever processed_blocks
end_of_iteration_AlwaysSummary(st, g, lb, pb, mb, block_number, t) ==
    LET periodic == emit_summary(block_number, "periodic", st)
    IN  IF IsSome(mb) /\ pb >= Unwrap(mb)
        THEN LET pl == post_loop(st, g, lb, t)
             IN  [pc |-> "done", gate |-> pl.gate,
                  lines |-> periodic \o <<InfoLine("reached SHADOW_MAX_BLOCKS")>>
                            \o pl.lines]
        ELSE [pc |-> "sleep", gate |-> g, lines |-> periodic]

\* The end of an iteration without the SHADOW_MAX_BLOCKS test
end_of_iteration_NoHardStop(st, g, lb, pb, mb, block_number, t) ==
    LET periodic == IF pb % summary_every_blocks = 0
                    THEN emit_summary(block_number, "periodic", st) ELSE <<>>
    IN  [pc |-> "sleep", gate |-> g, lines |-> periodic]

\* The end of an iteration that reached the end of the for loop: the periodic
\* summary, then the SHADOW_MAX_BLOCKS test
end_of_iteration(st, g, lb, pb, mb, block_number, t) ==
    LET periodic == IF pb % summary_every_blocks = 0
                    THEN emit_summary(block_number, "periodic", st) ELSE <<>>
    IN  IF IsSome(mb) /\ pb >= Unwrap(mb)
        THEN LET pl == post_loop(st, g, lb, t)
             IN  [pc |-> "done", gate |-> pl.gate,
                  lines |-> periodic \o <<InfoLine("reached SHADOW_MAX_BLOCKS")>>
                            \o pl.lines]
        ELSE [pc |-> "sleep", gate |-> g, lines |-> periodic]

\* The for loop from size i, and the end of the iteration when it ends
rest_of_iteration(i, c, st, g, lb, pb, mb, t) ==
    LET f == for_input_sizes(i, c, st, pb)
    IN  IF f.await > 0
        THEN [pc |-> "v3_quote", idx |-> f.await, stats |-> f.stats, gate |-> g,
              lines |-> f.lines]
        ELSE LET e == end_of_iteration(f.stats, g, lb, pb, mb, c.block_number, t)
             IN  [pc |-> e.pc, idx |-> 0, stats |-> f.stats, gate |-> e.gate,
                  lines |-> f.lines \o e.lines]

----------------------------------------------------------------------------
(* The main loop of shadow_route: what the environment can answer *)

MaxPolls == 3                 \* iterations of the loop in one run
WallNowSecs == 100            \* unix_now_secs()

BlockNumbers == {1, 2}
BlockTimestamps ==
    {WallNowSecs - MaxBlockAgeSecs - 1, WallNowSecs - MaxBlockAgeSecs, WallNowSecs + 5}
GasPrices == {1, MaxGasPriceWei + 1}
ReservePairs == {<<0, 4000>>, <<4000, 0>>, <<4000, 5>>, <<4000, 4000>>}
V3Outs == {2020, 2100}
SleepExtraMs == {0}           \* time the sleep and the RPCs take beyond poll_interval

RpcAwaits == {"block_number", "block", "gas_price", "reserves", "v3_quote"}

\* What the calls made to a gate have printed so far:
\*   lines, reported   log lines printed; sum of the counts that log lines and
\*                     flush lines reported
\*   first_call, last_call   instants of the first and the latest log call
\*   prev_emit, last_emit    instants of the two latest log lines
\*   since       log calls after the latest log line
\*   pending     log calls that printed nothing after the latest log line or flush
\*   overflow    pending has exceeded U64Max at some point
\*   flushed     flush was called after the latest log line
\*   last_*      the latest call: its operation, whether it printed, the count it
\*               reported, and since and flushed as they were before it
\*   after_flush the call before the latest one was a flush
GlogInit ==
    [lines |-> 0, reported |-> 0, first_call |-> None, last_call |-> None,
     prev_emit |-> None, last_emit |-> None, since |-> 0, pending |-> 0,
     overflow |-> FALSE, flushed |-> FALSE, last_op |-> "none",
     last_emitted |-> FALSE, last_reported |-> 0, last_since |-> 0,
     last_flushed |-> FALSE, after_flush |-> FALSE]

Init ==
    /\ pc = "sleep"
    /\ idx = 0
    /\ last_block = None
    /\ processed_blocks = 0
    /\ cur = CurDefault
    /\ stats = StatsDefault
    /\ gate = ErrorLogGate_new(MinIntervalMs)
    /\ now = 0
    /\ out = <<InfoLine("Shadow mode start")>>
    /\ hist = <<>>
    /\ polls = 0
    /\ max_blocks \in {None, Some(MaxBlocksLimit)}
    /\ min_profit \in {0, MinProfitWei}
    /\ sigint = None
    /\ gate_calls = 0
    /\ glog = GlogInit
    /\ record_calls = 0
    /\ call = CallNone

\* select!: the sleep branch completes
SleepElapsed ==
    /\ pc = "sleep"
    /\ polls < MaxPolls
    /\ \E d \in SleepExtraMs : now' = now + poll_interval + d
    /\ pc' = "block_number"
    /\ polls' = polls + 1
    /\ cur' = CurDefault
    /\ hist' = hist \o LineKeys(out)
    /\ out' = <<>>
    /\ sigint' = None
    /\ UNCHANGED <<idx, last_block, processed_blocks, stats, gate, max_blocks, min_profit,
                   gate_calls, glog, record_calls, call>>

\* select!: the ctrl_c branch completes; break, then the code after the loop
CtrlC ==
    /\ pc = "sleep"
    /\ LET pl == post_loop(stats, gate, last_block, now)
       IN  /\ out' = out \o <<InfoLine("Shadow mode stopped.")>> \o pl.lines
           /\ gate' = pl.gate
    /\ pc' = "done"
    /\ UNCHANGED <<idx, last_block, processed_blocks, cur, stats, now, polls,
                   max_blocks, min_profit, sigint, gate_calls, glog, record_calls, call, hist>>

\* SIGINT while main awaits an RPC: no ctrl_c() future exists outside the
\* select!, so nothing of the program changes.
SigintDuringRpc ==
    /\ pc \in RpcAwaits
    /\ sigint = None
    /\ sigint' = Some([pc |-> pc, idx |-> idx])
    /\ UNCHANGED <<pc, idx, last_block, processed_blocks, cur, stats, gate, now, out,
                   polls, max_blocks, min_profit, gate_calls, glog, record_calls, call, hist>>

\* provider.get_block_number() answers Ok, a new block leaving blocks_seen as
\* it was
BlockNumberOk_BlocksSeenKept ==
    /\ pc = "block_number"
    /\ \E n \in BlockNumbers :
         IF last_block = Some(n)
         THEN /\ pc' = "sleep"
              /\ UNCHANGED <<last_block, processed_blocks, stats, cur>>
         ELSE /\ last_block' = Some(n)
              /\ processed_blocks' = SatAdd64(processed_blocks, 1)
              /\ stats' = stats
              /\ cur' = [cur EXCEPT !.block_number = n]
              /\ pc' = "block"
    /\ UNCHANGED <<idx, gate, now, out, polls, max_blocks, min_profit, sigint, gate_calls, glog,
                   record_calls, call, hist>>

\* get_block_number answering Ok, a block being new only when its number is
\* above last_block
BlockNumberOk_OnlyHigher ==
    /\ pc = "block_number"
    /\ \E n \in BlockNumbers :
         IF IsSome(last_block) /\ n <= Unwrap(last_block)
         THEN /\ pc' = "sleep"
              /\ UNCHANGED <<last_block, processed_blocks, stats, cur>>
         ELSE /\ last_block' = Some(n)
              /\ processed_blocks' = SatAdd64(processed_blocks, 1)
              /\ stats' = [stats EXCEPT !.blocks_seen = SatAdd64(@, 1)]
              /\ cur' = [cur EXCEPT !.block_number = n]
              /\ pc' = "block"
    /\ UNCHANGED <<idx, gate, now, out, polls, max_blocks, min_profit, sigint, gate_calls, glog,
                   record_calls, call, hist>>

\* get_block_number answering Ok without the test against last_block
BlockNumberOk_NoSameBlockTest ==
    /\ pc = "block_number"
    /\ \E n \in BlockNumbers :
         /\ last_block' = Some(n)
         /\ processed_blocks' = SatAdd64(processed_blocks, 1)
         /\ stats' = [stats EXCEPT !.blocks_seen = SatAdd64(@, 1)]
         /\ cur' = [cur EXCEPT !.block_number = n]
         /\ pc' = "block"
    /\ UNCHANGED <<idx, gate, now, out, polls, max_blocks, min_profit, sigint, gate_calls, glog,
                   record_calls, call, hist>>

\* provider.get_block_number() answers Ok
BlockNumberOk ==
    /\ pc = "block_number"
    /\ \E n \in BlockNumbers :
         IF last_block = Some(n)
         THEN /\ pc' = "sleep"
              /\ UNCHANGED <<last_block, processed_blocks, stats, cur>>
         ELSE /\ last_block' = Some(n)
              /\ processed_blocks' = SatAdd64(processed_blocks, 1)
              /\ stats' = [stats EXCEPT !.blocks_seen = SatAdd64(@, 1)]
              /\ cur' = [cur EXCEPT !.block_number = n]
              /\ pc' = "block"
    /\ UNCHANGED <<idx, gate, now, out, polls, max_blocks, min_profit, sigint, gate_calls, glog,
                   record_calls, call, hist>>

\* The Err arm of get_block_number counting the tick as a block
BlockNumberErr_CountsTick ==
    /\ pc = "block_number"
    /\ LET l == ErrorLogGate_log(gate, now, "block fetch failed (retrying)")
       IN  /\ gate' = l.gate
           /\ out' = out \o l.lines
    /\ gate_calls' = gate_calls + 1
    /\ processed_blocks' = processed_blocks + 1
    /\ stats' = [stats EXCEPT !.blocks_seen = SatAdd64(@, 1)]
    /\ pc' = "sleep"
    /\ UNCHANGED <<idx, last_block, cur, now, polls,
                   max_blocks, min_profit, sigint, glog, record_calls, call, hist>>

\* provider.get_block_number() answers Err
BlockNumberErr ==
    /\ pc = "block_number"
    /\ LET l == ErrorLogGate_log(gate, now, "block fetch failed (retrying)")
       IN  /\ gate' = l.gate
           /\ out' = out \o l.lines
    /\ gate_calls' = gate_calls + 1
    /\ pc' = "sleep"
    /\ UNCHANGED <<idx, last_block, processed_blocks, cur, stats, now, polls,
                   max_blocks, min_profit, sigint, glog, record_calls, call, hist>>

\* provider.get_block() answers Ok(None)
GetBlockNone ==
    /\ pc = "block"
    /\ LET e == log_route_error(cur.block_number, 0, R_missing_block, stats,
                                processed_blocks)
       IN  /\ stats' = e.stats
           /\ out' = out \o e.lines
    /\ pc' = "sleep"
    /\ UNCHANGED <<idx, last_block, processed_blocks, cur, gate, now, polls,
                   max_blocks, min_profit, sigint, gate_calls, glog, record_calls, call, hist>>

\* provider.get_block() answers Err
GetBlockErr ==
    /\ pc = "block"
    /\ LET l == ErrorLogGate_log(gate, now, "block payload fetch failed")
           e == log_route_error(cur.block_number, 0, R_block_fetch_failed, stats,
                                processed_blocks)
       IN  /\ gate' = l.gate
           /\ stats' = e.stats
           /\ out' = out \o l.lines \o e.lines
    /\ gate_calls' = gate_calls + 1
    /\ pc' = "sleep"
    /\ UNCHANGED <<idx, last_block, processed_blocks, cur, now, polls, max_blocks, min_profit,
                   sigint, glog, record_calls, call, hist>>

\* provider.get_block() answers Ok(Some(block)); the staleness gate
GetBlockOk ==
    /\ pc = "block"
    /\ \E ts \in BlockTimestamps :
         LET block_age_secs == IF WallNowSecs >= ts THEN WallNowSecs - ts ELSE 0
         IN  IF block_age_secs > MaxBlockAgeSecs
             THEN LET e == log_route_error(cur.block_number, block_age_secs,
                                           R_stale(block_age_secs), stats,
                                           processed_blocks)
                  IN  /\ stats' = e.stats
                      /\ out' = out \o e.lines
                      /\ pc' = "sleep"
                      /\ cur' = cur
             ELSE /\ cur' = [cur EXCEPT !.block_age_secs = block_age_secs]
                  /\ pc' = "gas_price"
                  /\ UNCHANGED <<stats, out>>
    /\ UNCHANGED <<idx, last_block, processed_blocks, gate, now, polls, max_blocks, min_profit,
                   sigint, gate_calls, glog, record_calls, call, hist>>

\* provider.get_gas_price() answers Ok
GasPriceOk ==
    /\ pc = "gas_price"
    /\ \E g \in GasPrices : cur' = [cur EXCEPT !.gas_price = g]
    /\ pc' = "reserves"
    /\ UNCHANGED <<idx, last_block, processed_blocks, stats, gate, now, out, polls,
                   max_blocks, min_profit, sigint, gate_calls, glog, record_calls, call, hist>>

\* provider.get_gas_price() answers Err
GasPriceErr ==
    /\ pc = "gas_price"
    /\ LET l == ErrorLogGate_log(gate, now, "gas price fetch failed")
           e == log_route_error(cur.block_number, cur.block_age_secs,
                                R_gas_price_failed, stats, processed_blocks)
       IN  /\ gate' = l.gate
           /\ stats' = e.stats
           /\ out' = out \o l.lines \o e.lines
    /\ gate_calls' = gate_calls + 1
    /\ pc' = "sleep"
    /\ UNCHANGED <<idx, last_block, processed_blocks, cur, now, polls, max_blocks, min_profit,
                   sigint, glog, record_calls, call, hist>>

\* get_v2_reserves() answers Ok; the zero-reserve test, then the for loop up
\* to its first V3 quote
ReservesOk ==
    /\ pc = "reserves"
    /\ \E r \in ReservePairs :
         LET c == [cur EXCEPT !.reserve0 = r[1], !.reserve1 = r[2]]
         IN  /\ cur' = c
             /\ IF r[1] = 0 \/ r[2] = 0
                THEN LET e == log_route_error(c.block_number, c.block_age_secs,
                                              R_v2_zero_reserve, stats,
                                              processed_blocks)
                     IN  /\ stats' = e.stats
                         /\ out' = out \o e.lines
                         /\ pc' = "sleep"
                         /\ UNCHANGED <<idx, gate>>
                ELSE LET n == rest_of_iteration(1, c, stats, gate, last_block,
                                                processed_blocks, max_blocks, now)
                     IN  /\ stats' = n.stats
                         /\ out' = out \o n.lines
                         /\ pc' = n.pc
                         /\ idx' = n.idx
                         /\ gate' = n.gate
    /\ UNCHANGED <<last_block, processed_blocks, now, polls, max_blocks, min_profit, sigint,
                   gate_calls, glog, record_calls, call, hist>>

\* get_v2_reserves() answers Err
ReservesErr ==
    /\ pc = "reserves"
    /\ LET l == ErrorLogGate_log(gate, now, "v2 reserves fetch failed")
           e == log_route_error(cur.block_number, cur.block_age_secs,
                                R_v2_reserves_failed, stats, processed_blocks)
       IN  /\ gate' = l.gate
           /\ stats' = e.stats
           /\ out' = out \o l.lines \o e.lines
    /\ gate_calls' = gate_calls + 1
    /\ pc' = "sleep"
    /\ UNCHANGED <<idx, last_block, processed_blocks, cur, now, polls, max_blocks, min_profit,
                   sigint, glog, record_calls, call, hist>>

\* quote_v3_exact_input_single() answers Ok for size idx: the ladder, the row,
\* then the for loop up to its next V3 quote
V3QuoteOk ==
    /\ pc = "v3_quote"
    /\ \E v3_out \in V3Outs :
         LET input == input_sizes[idx]
             gas_cost == gas_cost_of(cur)
             flash_fee == flash_fee_of(input)
             total_cost == SatAdd256(SatAdd256(input, flash_fee), gas_cost)
             d == classify(cur.gas_price, v3_out, total_cost, min_profit)
             e == emit_row(cur.block_number, cur.block_age_secs, input,
                           cur.gas_price, gas_cost, flash_fee,
                           v2_out_mid_of(cur, input), v3_out, d.decision, d.reason,
                           stats, processed_blocks, idx)
             n == rest_of_iteration(idx + 1, cur, e.stats, gate, last_block,
                                    processed_blocks, max_blocks, now)
         IN  /\ stats' = n.stats
             /\ out' = out \o e.lines \o n.lines
             /\ pc' = n.pc
             /\ idx' = n.idx
             /\ gate' = n.gate
    /\ UNCHANGED <<last_block, processed_blocks, cur, now, polls, max_blocks, min_profit, sigint,
                   gate_calls, glog, record_calls, call, hist>>

\* The Err arm of the V3 quote leaving the for loop instead of going on with
\* the next size
V3QuoteErr_Break ==
    /\ pc = "v3_quote"
    /\ LET input == input_sizes[idx]
           l == ErrorLogGate_log(gate, now, "v3 quoter call failed")
           e == emit_row(cur.block_number, cur.block_age_secs, input, cur.gas_price,
                         gas_cost_of(cur), flash_fee_of(input),
                         v2_out_mid_of(cur, input), 0, "would_skip",
                         R_v3_quoter_failed, stats, processed_blocks, idx)
           n == rest_of_iteration(Len(input_sizes) + 1, cur, e.stats, l.gate, last_block,
                                  processed_blocks, max_blocks, now)
       IN  /\ stats' = n.stats
           /\ out' = out \o l.lines \o e.lines \o n.lines
           /\ pc' = n.pc
           /\ idx' = n.idx
           /\ gate' = n.gate
    /\ gate_calls' = gate_calls + 1
    /\ UNCHANGED <<last_block, processed_blocks, cur, now, polls, max_blocks, min_profit, sigint,
                   glog, record_calls, call, hist>>

\* quote_v3_exact_input_single() answers Err for size idx
V3QuoteErr ==
    /\ pc = "v3_quote"
    /\ LET input == input_sizes[idx]
           l == ErrorLogGate_log(gate, now, "v3 quoter call failed")
           e == emit_row(cur.block_number, cur.block_age_secs, input, cur.gas_price,
                         gas_cost_of(cur), flash_fee_of(input),
                         v2_out_mid_of(cur, input), 0, "would_skip",
                         R_v3_quoter_failed, stats, processed_blocks, idx)
           n == rest_of_iteration(idx + 1, cur, e.stats, l.gate, last_block,
                                  processed_blocks, max_blocks, now)
       IN  /\ stats' = n.stats
           /\ out' = out \o l.lines \o e.lines \o n.lines
           /\ pc' = n.pc
           /\ idx' = n.idx
           /\ gate' = n.gate
    /\ gate_calls' = gate_calls + 1
    /\ UNCHANGED <<last_block, processed_blocks, cur, now, polls, max_blocks, min_profit, sigint,
                   glog, record_calls, call, hist>>

Next ==
    \/ SleepElapsed
    \/ CtrlC
    \/ SigintDuringRpc
    \/ BlockNumberOk
    \/ BlockNumberErr
    \/ GetBlockNone
    \/ GetBlockErr
    \/ GetBlockOk
    \/ GasPriceOk
    \/ GasPriceErr
    \/ ReservesOk
    \/ ReservesErr
    \/ V3QuoteOk
    \/ V3QuoteErr

Spec == Init /\ [][Next]_vars

----------------------------------------------------------------------------
(* ShadowStats alone: any sequence of record calls on a fresh ShadowStats *)

\* The variables of the main loop, idle while a unit is exercised alone
MainIdle ==
    /\ pc = "unit"
    /\ idx = 0
    /\ last_block = None
    /\ processed_blocks = 0
    /\ cur = CurDefault
    /\ out = <<>>
    /\ hist = <<>>
    /\ polls = 0
    /\ max_blocks = None
    /\ min_profit = 0
    /\ sigint = None

main_vars ==
    <<pc, idx, last_block, processed_blocks, cur, out, hist, polls, max_blocks,
      min_profit, sigint>>

MaxRecordCalls == U64Max + 2

Decisions == {"would_trade", "would_skip", "other"}
SomeReasons ==
    {R_gas_too_high, R_missing_block, R_block_fetch_failed, <<Colon, "other">>, <<>>,
     <<"quote_error", Colon, "v3", Colon, "reverted">>}

InitStats ==
    /\ MainIdle
    /\ stats = StatsDefault
    /\ record_calls = 0
    /\ call = CallNone
    /\ gate = ErrorLogGate_new(MinIntervalMs)
    /\ now = 0
    /\ gate_calls = 0
    /\ glog = GlogInit

StatsRecord ==
    /\ pc = "unit"
    /\ record_calls < MaxRecordCalls
    /\ \E d \in Decisions, r \in SomeReasons :
         /\ stats' = record(stats, d, r)
         /\ call' = [op |-> "record", decision |-> d, reason |-> r, before |-> stats]
    /\ record_calls' = record_calls + 1
    /\ UNCHANGED <<main_vars, gate, now, gate_calls, glog>>

NextStats == StatsRecord

SpecStats == InitStats /\ [][NextStats]_vars

\* C2 as stated: after any sequence of record calls, rows_emitted equals
\* would_trade + would_skip.
C2_Original == stats.rows_emitted = stats.would_trade + stats.would_skip

\* C2 as amended: rows_emitted equals would_trade + would_skip capped at the
\* maximum of the counter; the two are equal while rows_emitted is below it.
C2_Amended ==
    /\ stats.rows_emitted = Min(stats.would_trade + stats.would_skip, U64Max)
    /\ stats.rows_emitted = Min(record_calls, U64Max)
    /\ stats.rows_emitted < U64Max =>
           stats.rows_emitted = stats.would_trade + stats.would_skip

\* Both decisions recorded, and more records made than the counter can hold
C2_Witness ==
    /\ stats.would_trade > 0
    /\ stats.would_skip > 0
    /\ record_calls > U64Max
    /\ stats.rows_emitted = U64Max

----------------------------------------------------------------------------
(* ErrorLogGate alone: any sequence of log and flush calls on a fresh gate,  *)
(* at non-decreasing instants                                                *)

MaxGateTimeMs == 35000
MaxGateCalls == U64Max + 3
GateStepsMs == {5000, 15000}

RECURSIVE SumReported(_)
SumReported(lines) ==
    IF lines = <<>> THEN 0 ELSE Reported(Head(lines)) + SumReported(Tail(lines))

GlogAfterLog(gl, lines, t) ==
    LET emitted == lines # <<>>
        pending == IF emitted THEN 0 ELSE gl.pending + 1
    IN  [lines |-> gl.lines + Len(lines),
         reported |-> gl.reported + SumReported(lines),
         first_call |-> IF gl.first_call = None THEN Some(t) ELSE gl.first_call,
         last_call |-> Some(t),
         prev_emit |-> IF emitted THEN gl.last_emit ELSE gl.prev_emit,
         last_emit |-> IF emitted THEN Some(lines[1].at) ELSE gl.last_emit,
         since |-> IF emitted THEN 0 ELSE gl.since + 1,
         pending |-> pending,
         overflow |-> gl.overflow \/ pending > U64Max,
         flushed |-> IF emitted THEN FALSE ELSE gl.flushed,
         last_op |-> "log",
         last_emitted |-> emitted,
         last_reported |-> SumReported(lines),
         last_since |-> gl.since,
         last_flushed |-> gl.flushed,
         after_flush |-> gl.last_op = "flush"]

GlogAfterFlush(gl, lines) ==
    [gl EXCEPT !.reported = @ + SumReported(lines),
               !.pending = 0,
               !.flushed = TRUE,
               !.last_op = "flush",
               !.last_emitted = lines # <<>>,
               !.last_reported = SumReported(lines),
               !.last_since = gl.since,
               !.last_flushed = gl.flushed,
               !.after_flush = gl.last_op = "flush"]

InitGate ==
    /\ MainIdle
    /\ stats = StatsDefault
    /\ record_calls = 0
    /\ call = CallNone
    /\ gate = ErrorLogGate_new(MinIntervalMs)
    /\ now = 0
    /\ gate_calls = 0
    /\ glog = GlogInit

GateLogCall ==
    /\ pc = "unit"
    /\ gate_calls < MaxGateCalls
    /\ LET l == ErrorLogGate_log(gate, now, "error")
       IN  /\ gate' = l.gate
           /\ glog' = GlogAfterLog(glog, l.lines, now)
    /\ gate_calls' = gate_calls + 1
    /\ UNCHANGED <<main_vars, stats, now, record_calls, call>>

GateFlushCall ==
    /\ pc = "unit"
    /\ LET f == ErrorLogGate_flush(gate, now, "errors")
       IN  /\ gate' = f.gate
           /\ glog' = GlogAfterFlush(glog, f.lines)
    /\ UNCHANGED <<main_vars, stats, now, gate_calls, record_calls, call>>

GateTimePasses ==
    /\ pc = "unit"
    /\ \E d \in GateStepsMs : now + d <= MaxGateTimeMs /\ now' = now + d
    /\ UNCHANGED <<main_vars, stats, gate, gate_calls, glog, record_calls, call>>

NextGate == GateLogCall \/ GateFlushCall \/ GateTimePasses

SpecGate == InitGate /\ [][NextGate]_vars

\* C7: any two lines printed by log on one gate are at least min_interval
\* apart (the two latest lines, hence any two).
C7_MinIntervalApart ==
    IsSome(glog.prev_emit) =>
        Unwrap(glog.last_emit) - Unwrap(glog.prev_emit) >= gate.min_interval

\* Two lines printed, with a call in between that printed nothing
C7_Witness ==
    /\ IsSome(glog.prev_emit)
    /\ glog.last_op = "log" /\ glog.last_emitted /\ glog.last_reported > 0

\* Monotonic time spanned by the log calls made so far
GateElapsed == Unwrap(glog.last_call) - Unwrap(glog.first_call)
CeilDiv(a, b) == (a + b - 1) \div b

\* C8 as stated: the lines log has printed number at most
\* ceil(elapsed / min_interval).
C8_Original ==
    IsSome(glog.first_call) => glog.lines <= CeilDiv(GateElapsed, gate.min_interval)

\* C8 as amended: the lines log has printed number at most
\* floor(elapsed / min_interval) + 1.
C8_Amended ==
    IsSome(glog.first_call) => glog.lines <= (GateElapsed \div gate.min_interval) + 1

\* Three lines printed, as many as the amended bound allows
C8_Witness ==
    /\ IsSome(glog.first_call)
    /\ glog.lines = 3
    /\ glog.lines = (GateElapsed \div gate.min_interval) + 1

\* C9 as stated: when log prints a line (no flush since the line before), the
\* count it reports is the number of log calls since the previous line,
\* counting the printing call, minus one.
C9_Original ==
    (glog.last_op = "log" /\ glog.last_emitted /\ ~glog.last_flushed) =>
        glog.last_reported = (glog.last_since + 1) - 1

\* C9 as amended: the count reported is that number capped at the maximum of
\* the u64 counter.
C9_Amended ==
    (glog.last_op = "log" /\ glog.last_emitted /\ ~glog.last_flushed) =>
        glog.last_reported = Min((glog.last_since + 1) - 1, U64Max)

\* A line printed after more suppressed calls than the counter can hold
C9_Witness ==
    /\ glog.last_op = "log" /\ glog.last_emitted /\ ~glog.last_flushed
    /\ glog.last_since > U64Max
    /\ glog.last_reported = U64Max

\* The gate alone and the gate inside the main loop: a run is either a
\* sequence of calls on a fresh gate or a run of main
InitGateOrMain == InitGate \/ Init
NextGateOrMain == NextGate \/ Next
SpecGateOrMain == InitGateOrMain /\ [][NextGateOrMain]_vars

\* Lines of kind k among lines
LinesOfKind(lines, k) == SelectSeq(lines, LAMBDA l : l.kind = k)

\* The log calls the main loop's output accounts for: the lines log printed
\* plus the counts reported by log lines and by flush lines
MainAccounted ==
    Len(LinesOfKind(AllLines, "log")) + SumReported(LinesOfKind(AllLines, "log"))
        + SumReported(LinesOfKind(AllLines, "flush"))

----------------------------------------------------------------------------
(* The main loop: claims C1, C3, C4, C5, C6, stated over Spec *)

\* The decision rows among the lines of the current iteration
RowIxs == {i \in DOMAIN out : out[i].kind = "row"}

\* The rows written by the ladder: V2 quote nonzero, V3 quote answered
LadderRowIxs ==
    {i \in RowIxs : out[i].v2_out_mid_wei # "0" /\ out[i].reason # R_v3_quoter_failed}

\* The ladder as the specification words it
SpecLadder(gas_price, v3_out, total_cost) ==
    CASE gas_price > MaxGasPriceWei -> <<"would_skip", <<"gas_too_high">>>>
      [] gas_price <= MaxGasPriceWei /\ v3_out <= total_cost ->
            <<"would_skip", <<"below_min_profit">>>>
      [] gas_price <= MaxGasPriceWei /\ v3_out > total_cost
            /\ v3_out - total_cost < min_profit ->
            <<"would_skip", <<"below_min_profit">>>>
      [] OTHER -> <<"would_trade", <<"edge_above_threshold">>>>

\* total_cost = input + flash_fee + gas_cost, saturating
SpecTotalCost(input, gas_price) ==
    Min(input + (input * FlashLoanFeeBps) \div BpsDenominator
          + gas_price * GasUnitsEstimate, U256Max)

\* The sizes that have a row in the current iteration
SizesWithRow == {out[i].size_ix : i \in RowIxs}

\* C1: every row for a size whose V2 quote is nonzero and whose V3 quote
\* succeeded carries the decision and reason of the first matching rule of the
\* ladder, with total_cost = input + flash_fee + gas_cost, and exactly one row
\* is written for each size the for loop has passed.
C1_LadderFirstMatch ==
    /\ \A i \in LadderRowIxs :
         \E g \in GasPrices, v \in V3Outs :
            LET input == input_sizes[out[i].size_ix]
                total_cost == SpecTotalCost(input, g)
            IN  /\ out[i].gas_price_wei = ToString(g)
                /\ out[i].v3_out_wei = ToString(v)
                /\ out[i].input_wei = ToString(input)
                /\ out[i].total_cost_wei = ToString(total_cost)
                /\ <<out[i].decision, out[i].reason>> = SpecLadder(g, v, total_cost)
    /\ \A i, j \in RowIxs : out[i].size_ix = out[j].size_ix => i = j
    /\ RowIxs # {} =>
         SizesWithRow = IF pc = "v3_quote" THEN 1..(idx - 1) ELSE 1..Len(input_sizes)

\* One block whose first size trades and whose second size is skipped by the
\* third rule (a positive net below min_profit)
C1_Witness ==
    \E i, j \in LadderRowIxs :
        /\ out[i].size_ix = 1 /\ out[i].decision = "would_trade"
        /\ out[j].size_ix = 2 /\ out[j].reason = R_below_min_profit
        /\ out[j].net_wei # "0"

\* The decision rows among all lines written so far
AllRowIxs == {i \in DOMAIN AllLines : AllLines[i].kind = "row"}

\* C3 as stated: whatever block numbers the RPC returns, rows of one block
\* are in input-size order and no row for a block follows a row for a later
\* block.
C3_Original ==
    \A i, j \in AllRowIxs :
        i < j => /\ AllLines[i].block <= AllLines[j].block
                 /\ AllLines[i].block = AllLines[j].block =>
                        AllLines[i].size_ix < AllLines[j].size_ix

\* The decision rows written so far, in the order they were written
AllRows == SelectSeq(AllLines, LAMBDA l : l.kind = "row")

\* C3 as amended: rows are ordered by iteration and, within an iteration, by
\* input size; the rows of one iteration carry one block number and those of
\* the next iteration a different one.  Stated on each row and the row written
\* next, which orders all of them.
C3_Amended ==
    \A n \in 1..(Len(AllRows) - 1) :
        LET a == AllRows[n]
            b == AllRows[n + 1]
        IN  \/ /\ a.tick = b.tick
               /\ a.size_ix < b.size_ix
               /\ a.block = b.block
            \/ /\ a.tick < b.tick
               /\ b.size_ix = 1
               /\ b.tick = a.tick + 1 => a.block # b.block

\* Two full iterations, the later one for a lower block number
C3_Witness ==
    \E i, j \in AllRowIxs :
        /\ i < j
        /\ AllLines[i].block > AllLines[j].block
        /\ AllLines[i].size_ix = Len(input_sizes)
        /\ AllLines[j].size_ix = Len(input_sizes)

\* C4: when the signal fires while the V3 quote for size k is awaited, no row
\* is written for size k or a later size of that block.
C4_NoRowAfterCancel ==
    IsSome(sigint) /\ Unwrap(sigint).pc = "v3_quote" =>
        \A i \in RowIxs : out[i].size_ix < Unwrap(sigint).idx

\* C5: once the signal is raised while an RPC is pending, the loop does not
\* wait for the RPC: it is either still at that await or has left the loop.
C5_ObservedAtEveryAwait ==
    IsSome(sigint) =>
        \/ pc = "done"
        \/ pc = Unwrap(sigint).pc /\ idx = Unwrap(sigint).idx

\* The final summaries among all lines written so far
FinalIxs ==
    {i \in DOMAIN AllLines :
        AllLines[i].kind = "summary" /\ AllLines[i].summary_kind = "final"}

\* C6: no final summary while the loop runs; once the loop is left there is
\* exactly one, it is the last line, it carries last_block (0 when none), the
\* gate holds no suppressed count and a flush line, if any, is the line before.
C6_OneFinalSummaryLast ==
    /\ pc # "done" => FinalIxs = {}
    /\ pc = "done" =>
         /\ FinalIxs = {Len(AllLines)}
         /\ AllLines[Len(AllLines)].latest_block =
                IF IsSome(last_block) THEN Unwrap(last_block) ELSE 0
         /\ gate.suppressed = 0
         /\ \A i \in DOMAIN AllLines :
                AllLines[i].kind = "flush" => i = Len(AllLines) - 1

\* The loop left with a block seen and a suppressed count reported by the flush
C6_Witness ==
    /\ pc = "done"
    /\ IsSome(last_block)
    /\ \E i \in DOMAIN AllLines : AllLines[i].kind = "flush"

----------------------------------------------------------------------------
(* The rows of the main loop: claim C11, stated over Spec *)

\* The prefixes a reason may have before its first colon
ReasonPrefixes ==
    {<<"stale_data">>, <<"quote_error">>, <<"bad_pool_state">>, <<"gas_too_high">>,
     <<"below_min_profit">>, <<"edge_above_threshold">>}

\* C11: every decision row, on every path of the loop, has decision would_trade
\* or would_skip and a reason whose prefix before the first colon is one of the
\* six known prefixes; the decision is would_trade exactly when the reason is
\* edge_above_threshold.
C11_RowsWellFormed ==
    \A i \in RowIxs :
        /\ out[i].decision \in {"would_trade", "would_skip"}
        /\ normalized_reason(out[i].reason) \in ReasonPrefixes
        /\ out[i].decision = "would_trade" <=> out[i].reason = <<"edge_above_threshold">>

\* One block with a traded size and a size whose V3 quote failed
C11_Witness ==
    \E i, j \in RowIxs :
        /\ out[i].decision = "would_trade"
        /\ out[j].decision = "would_skip"
        /\ out[j].reason = <<"quote_error", ":", "v3_quoter_failed">>

----------------------------------------------------------------------------
(* ShadowStats.record and the histogram: claim C12, stated over SpecStats *)

\* The part of a reason before its first colon, the whole reason when it holds
\* none
BeforeFirstColon(reason) ==
    IF \E i \in DOMAIN reason : reason[i] = ":"
    THEN LET first == CHOOSE i \in DOMAIN reason :
                          /\ reason[i] = ":"
                          /\ \A j \in 1..(i - 1) : reason[j] # ":"
         IN  SubSeq(reason, 1, first - 1)
    ELSE reason

\* What the latest record call did to the histogram, but for the count of its key
RecordTouchesOneKey ==
    LET k == BeforeFirstColon(call.reason)
        before == call.before.reason_counts
    IN  /\ DOMAIN stats.reason_counts = DOMAIN before \cup {k}
        /\ \A x \in DOMAIN before : x # k => stats.reason_counts[x] = before[x]
        /\ \A x \in DOMAIN stats.reason_counts : \A i \in DOMAIN x : x[i] # ":"

\* C12 as stated: record adds exactly one to the entry keyed by the part of the
\* reason before its first colon and leaves every other entry unchanged; no
\* key holds a colon.
C12_Original ==
    call.op = "record" =>
        /\ RecordTouchesOneKey
        /\ stats.reason_counts[BeforeFirstColon(call.reason)] =
               MapGet(call.before.reason_counts, BeforeFirstColon(call.reason)) + 1

\* C12 as amended: the entry is incremented by one saturating at the maximum
\* of the u64 counter, so an entry already at the maximum stays there.
C12_Amended ==
    call.op = "record" =>
        /\ RecordTouchesOneKey
        /\ stats.reason_counts[BeforeFirstColon(call.reason)] =
               Min(MapGet(call.before.reason_counts, BeforeFirstColon(call.reason)) + 1,
                   U64Max)

\* A record with a detail suffix whose key was already at the maximum, next to
\* another key
C12_Witness ==
    /\ call.op = "record"
    /\ call.reason = <<"quote_error", ":", "v3", ":", "reverted">>
    /\ MapGet(call.before.reason_counts, <<"quote_error">>) = U64Max
    /\ stats.reason_counts[<<"quote_error">>] = U64Max
    /\ <<"gas_too_high">> \in DOMAIN stats.reason_counts

----------------------------------------------------------------------------
(* top_reason_counts: claim C13, stated over SpecStats *)

\* Entry a ranks before entry b: a higher count, or the same count and a
\* smaller reason string
RanksBefore(a, b) ==
    \/ a.count > b.count
    \/ a.count = b.count /\ KeyRank(a.reason) < KeyRank(b.reason)

\* The entries of the histogram of the current stats
HistogramEntries ==
    {[reason |-> k, count |-> stats.reason_counts[k]] : k \in DOMAIN stats.reason_counts}

\* The histogram after the records gas_too_high, quote_error:foo, quote_error:bar
ExampleHistogram ==
    [k \in {<<"gas_too_high">>, <<"quote_error">>} |->
        IF k = <<"quote_error">> THEN 2 ELSE 1]

\* C13: for every limit, top_reason_counts returns min(limit, number of keys)
\* entries of the histogram, each ranking before the next (count descending,
\* then reason ascending), and every entry left out ranks after every entry
\* returned; on the example histogram with limit 2 it returns quote_error 2,
\* gas_too_high 1.
C13_TopReasons ==
    /\ \A limit \in 0..TopReasonsLimit :
         LET top == top_reason_counts(stats, limit)
             returned == {top[i] : i \in DOMAIN top}
         IN  /\ Len(top) = Min(limit, Cardinality(DOMAIN stats.reason_counts))
             /\ returned \subseteq HistogramEntries
             /\ \A i \in 1..(Len(top) - 1) : RanksBefore(top[i], top[i + 1])
             /\ \A o \in HistogramEntries \ returned :
                    \A r \in returned : RanksBefore(r, o)
    /\ stats.reason_counts = ExampleHistogram =>
           top_reason_counts(stats, 2) =
               <<[reason |-> <<"quote_error">>, count |-> 2],
                 [reason |-> <<"gas_too_high">>, count |-> 1]>>

\* Three keys, two of them with the same count, and a limit that leaves one out
C13_Witness ==
    /\ Cardinality(DOMAIN stats.reason_counts) = 3
    /\ stats.reason_counts[<<"gas_too_high">>] = stats.reason_counts[<<"quote_error">>]
    /\ stats.reason_counts[<<>>] > stats.reason_counts[<<"quote_error">>]
    /\ top_reason_counts(stats, 2) =
           <<[reason |-> <<>>, count |-> stats.reason_counts[<<>>]],
             [reason |-> <<"gas_too_high">>,
              count |-> stats.reason_counts[<<"gas_too_high">>]]>>

----------------------------------------------------------------------------
(* The arithmetic helpers alone: each is called with arguments drawn from    *)
(* sets that hold zero, small values, the values around a basis-point        *)
(* boundary and the values around the maximum of U256                        *)
(* A run is one call: the helpers are pure, so a call depends on no earlier  *)
(* one.                                                                      *)

V2Amounts == (0..40) \cup {100, 333, 1000, 10001, U256Max \div 2, U256Max}
V2Reserves == (0..8) \cup {100, 1000, 4000, U256Max}
V2FeeBpsValues == {0, 30, 9999, 10000, 10001, 25000}

FeeAmounts ==
    {0, 1, 2, 100, 9999, 10000, 10001, 12345, U256Max \div 10000,
     U256Max \div 10000 + 1, U256Max - 1, U256Max}
FeeBpsValues == {0, 1, 30, 50, 9999, 10000, 10001, 20000, 2^20}

EdgeValues ==
    {0, 1, 2, 3, 100, 200, 9999, 10000, 10001, 20000, 20001, U256Max \div 10000,
     2 * (U256Max \div 10000), U256Max \div 10000 + 1, 2 * (U256Max \div 10000 + 1),
     U256Max \div 2, U256Max - 1, U256Max}

InitArith ==
    /\ MainIdle
    /\ stats = StatsDefault
    /\ record_calls = 0
    /\ call = CallNone
    /\ gate = ErrorLogGate_new(MinIntervalMs)
    /\ now = 0
    /\ gate_calls = 0
    /\ glog = GlogInit

CallFeeFromBps ==
    /\ pc = "unit"
    /\ call = CallNone
    /\ \E amount \in FeeAmounts, bps \in FeeBpsValues :
         call' = [op |-> "fee_from_bps", amount |-> amount, bps |-> bps,
                  result |-> fee_from_bps(amount, bps)]
    /\ UNCHANGED <<main_vars, stats, gate, now, gate_calls, glog, record_calls>>

CallQuoteV2 ==
    /\ pc = "unit"
    /\ call = CallNone
    /\ \E amount_in \in V2Amounts, reserve0 \in V2Reserves, reserve1 \in V2Reserves,
          fee_bps \in V2FeeBpsValues, token0_to1 \in BOOLEAN :
         call' = [op |-> "quote_v2_exact_in", amount_in |-> amount_in,
                  reserve0 |-> reserve0, reserve1 |-> reserve1, fee_bps |-> fee_bps,
                  token0_to1 |-> token0_to1,
                  result |-> quote_v2_exact_in(amount_in, reserve0, reserve1, fee_bps,
                                               token0_to1)]
    /\ UNCHANGED <<main_vars, stats, gate, now, gate_calls, glog, record_calls>>

CallSignedEdgeBps ==
    /\ pc = "unit"
    /\ call = CallNone
    /\ \E output \in EdgeValues, total_cost \in EdgeValues :
         call' = [op |-> "signed_edge_bps", output |-> output, total_cost |-> total_cost,
                  result |-> signed_edge_bps(output, total_cost)]
    /\ UNCHANGED <<main_vars, stats, gate, now, gate_calls, glog, record_calls>>

\* The arguments of one pass of the body of "for input in &input_sizes": the
\* size, the gas price and the reserves of the block (nonzero once the loop
\* is entered), the answer of the V3 quoter (none when it failed) and
\* config.min_profit_wei
EvalInputs == {0, 1, 1000, 2000, U256Max \div FlashLoanFeeBps + 1, U256Max - 1, U256Max}
EvalGasPrices == {0, 1, MaxGasPriceWei, MaxGasPriceWei + 1, U256Max \div GasUnitsEstimate + 1, U256Max}
EvalReserves == {1, 4000, U256Max}
EvalV3Answers == {<<>>} \cup {Some(v) : v \in {0, 1, 1000, 1005, 1015, 1105, 2020, 2100, U256Max - 1, U256Max}}
EvalMinProfits == {0, MinProfitWei, U256Max}

\* The plain subtractions (the "-" of U256, which panics on underflow) that
\* signed_edge_bps executes: gain at line 978 or loss at line 985
signed_edge_bps_subtractions(output, total_cost) ==
    IF total_cost = 0 THEN {}
    ELSE IF output >= total_cost
         THEN {[line |-> 978, minuend |-> output, subtrahend |-> total_cost]}
         ELSE {[line |-> 985, minuend |-> total_cost, subtrahend |-> output]}

\* The plain subtractions that emit_row executes: net at line 936, then those
\* of signed_edge_bps
emit_row_subtractions(input, flash_fee, gas_cost, v3_out) ==
    LET total_cost == SatAdd256(SatAdd256(input, flash_fee), gas_cost)
    IN  (IF v3_out > total_cost
         THEN {[line |-> 936, minuend |-> v3_out, subtrahend |-> total_cost]}
         ELSE {})
        \cup signed_edge_bps_subtractions(v3_out, total_cost)

\* The plain subtraction that the ladder executes: net at line 508, once the
\* rungs for the gas price and for v3_out <= total_cost are passed
classify_subtractions(gas_price, v3_out, total_cost) ==
    IF gas_price > MaxGasPriceWei THEN {}
    ELSE IF v3_out <= total_cost THEN {}
    ELSE {[line |-> 508, minuend |-> v3_out, subtrahend |-> total_cost]}

\* One pass of the body of the for loop (lines 389-550) with its row
CallEvaluateSize ==
    /\ pc = "unit"
    /\ call = CallNone
    /\ \E input \in EvalInputs, gas_price \in EvalGasPrices, reserve0 \in EvalReserves, reserve1 \in EvalReserves, v3_answer \in EvalV3Answers, min_profit_wei \in EvalMinProfits :
         LET c == [CurDefault EXCEPT !.block_number = 1, !.gas_price = gas_price,
                                     !.reserve0 = reserve0, !.reserve1 = reserve1]
             gas_cost == gas_cost_of(c)
             flash_fee == flash_fee_of(input)
             v2_out_mid == v2_out_mid_of(c, input)
             quoted == v2_out_mid # 0 /\ IsSome(v3_answer)
             v3_out == IF quoted THEN Unwrap(v3_answer) ELSE 0
             total_cost == SatAdd256(SatAdd256(input, flash_fee), gas_cost)
             d == IF v2_out_mid = 0
                  THEN [decision |-> "would_skip", reason |-> R_v2_out_zero]
                  ELSE IF ~IsSome(v3_answer)
                  THEN [decision |-> "would_skip", reason |-> R_v3_quoter_failed]
                  ELSE classify(gas_price, v3_out, total_cost, min_profit_wei)
             e == emit_row(c.block_number, c.block_age_secs, input, gas_price,
                           gas_cost, flash_fee, v2_out_mid,
                           v3_out, d.decision, d.reason, StatsDefault, 1, 1)
         IN  call' = [op |-> "evaluate_size", input |-> input, gas_price |-> gas_price,
                      reserve0 |-> reserve0, reserve1 |-> reserve1,
                      v3_out |-> v3_out, min_profit |-> min_profit_wei,
                      gas_cost |-> gas_cost, flash_fee |-> flash_fee,
                      v2_out_mid |-> v2_out_mid,
                      total_cost |-> IF quoted /\ gas_price <= MaxGasPriceWei
                                     THEN Some(total_cost) ELSE <<>>,
                      subtractions |->
                          (IF quoted THEN classify_subtractions(gas_price, v3_out, total_cost)
                           ELSE {})
                          \cup emit_row_subtractions(input, flash_fee, gas_cost, v3_out),
                      row |-> e.lines[1]]
    /\ UNCHANGED <<main_vars, stats, gate, now, gate_calls, glog, record_calls>>

NextArith == CallFeeFromBps \/ CallQuoteV2 \/ CallSignedEdgeBps \/ CallEvaluateSize

SpecArith == InitArith /\ [][NextArith]_vars

----------------------------------------------------------------------------
(* quote_v2_exact_in: claim C14, stated over SpecArith *)

\* x * y saturating at the maximum of U256, decided without forming a product
\* beyond it
ProductCapped(x, y) ==
    IF x = 0 \/ y = 0 THEN 0
    ELSE IF x <= U256Max \div y THEN x * y ELSE U256Max

\* The reference algorithm, step by step
ReferenceQuoteV2(amount_in, reserve0, reserve1, fee_bps, token0_to1) ==
    LET r_in == IF token0_to1 THEN reserve0 ELSE reserve1
        r_out == IF token0_to1 THEN reserve1 ELSE reserve0
        fee_num == 10000 - (IF fee_bps < 10000 THEN fee_bps ELSE 10000)
        a == ProductCapped(amount_in, fee_num) \div 10000
        numerator == ProductCapped(a, r_out)
        denominator == IF r_in + a > U256Max THEN U256Max ELSE r_in + a
    IN  IF amount_in = 0 \/ r_in = 0 \/ r_out = 0 THEN 0
        ELSE IF denominator = 0 THEN 0
        ELSE numerator \div denominator

\* C14: quote_v2_exact_in returns what the reference algorithm returns, for
\* both directions, zero arguments, fees beyond 10_000 and saturating products
\* and sums, and always returns a U256.
C14_EqualsReference ==
    call.op = "quote_v2_exact_in" =>
        /\ call.result = ReferenceQuoteV2(call.amount_in, call.reserve0, call.reserve1,
                                          call.fee_bps, call.token0_to1)
        /\ call.result \in 0..U256Max

\* A call against the pair order, with a fee, whose product saturates
C14_Witness ==
    /\ call.op = "quote_v2_exact_in"
    /\ ~call.token0_to1
    /\ call.reserve0 # call.reserve1
    /\ call.fee_bps = 30
    /\ call.amount_in > U256Max \div (10000 - call.fee_bps)
    /\ call.result > 0

----------------------------------------------------------------------------
(* quote_v2_exact_in against the canonical Uniswap-V2 form: claim C15, over  *)
(* SpecArith                                                                 *)

\* The reserves of the latest quote_v2_exact_in call, by direction
CallReserveIn == IF call.token0_to1 THEN call.reserve0 ELSE call.reserve1
CallReserveOut == IF call.token0_to1 THEN call.reserve1 ELSE call.reserve0
CallFeeNum == 10000 - call.fee_bps

\* The latest call is a quote with nonzero reserves, a fee in [0, 10_000] and
\* no product or sum of either form beyond the maximum of U256
CanonicalRange ==
    /\ call.op = "quote_v2_exact_in"
    /\ CallReserveIn > 0 /\ CallReserveOut > 0
    /\ call.fee_bps \in 0..10000
    /\ call.amount_in <= U256Max \div 10000
    /\ call.amount_in * CallFeeNum <= U256Max \div CallReserveOut
    /\ CallReserveIn <= U256Max \div 10000
    /\ CallReserveIn * 10000 + call.amount_in * CallFeeNum <= U256Max

\* amount_in * fee_num * r_out / (r_in * 10_000 + amount_in * fee_num)
CanonicalQuote ==
    (call.amount_in * CallFeeNum * CallReserveOut)
        \div (CallReserveIn * 10000 + call.amount_in * CallFeeNum)

\* C15 as stated: in that range the quote is never above the canonical output
\* and below it by at most 1.
C15_Original ==
    CanonicalRange =>
        /\ call.result <= CanonicalQuote
        /\ CanonicalQuote - call.result <= 1

\* C15 as amended: in that range the quote is never above the canonical
\* output, equals it when amount_in * fee_num is a multiple of 10_000, and is
\* below it by at most ceil(r_out / r_in), hence by at most 1 when
\* r_out <= r_in.
C15_Amended ==
    CanonicalRange =>
        /\ call.result <= CanonicalQuote
        /\ (call.amount_in * CallFeeNum) % 10000 = 0 => call.result = CanonicalQuote
        /\ CanonicalQuote - call.result
               <= (CallReserveOut + CallReserveIn - 1) \div CallReserveIn
        /\ CallReserveOut <= CallReserveIn => CanonicalQuote - call.result <= 1

\* A quote with the usual fee that is hundreds of units below the canonical one
C15_Witness ==
    /\ CanonicalRange
    /\ call.fee_bps = 30
    /\ call.amount_in = 1
    /\ CallReserveIn = 1 /\ CallReserveOut = 1000
    /\ call.result = 0
    /\ CanonicalQuote = 499

----------------------------------------------------------------------------
(* fee_from_bps: claim C16, stated over SpecArith *)

\* amount * bps / 10_000 in exact integers, for bps up to 10_000, computed from
\* the quotient and remainder of amount so that no product exceeds the
\* integers of the checker
ExactFee(amount, bps) ==
    (amount \div 10000) * bps + ((amount % 10000) * bps) \div 10000

\* C16: wherever amount * bps does not saturate, fee_from_bps(amount, bps)
\* is amount * min(bps, 10_000) / 10_000, so it never exceeds amount; it is 0
\* for bps = 0 and amount for bps = 10_000.
C16_ClampedFee ==
    (call.op = "fee_from_bps" /\ (call.bps = 0 \/ call.amount <= U256Max \div call.bps)) =>
        /\ call.result = ExactFee(call.amount, Min(call.bps, 10000))
        /\ call.result <= call.amount
        /\ call.bps = 0 => call.result = 0
        /\ call.bps = 10000 => call.result = call.amount

----------------------------------------------------------------------------
(* signed_edge_bps: claims C17 and C18, stated over SpecArith *)

\* C17: signed_edge_bps never returns negative zero.
C17_NoNegativeZero ==
    call.op = "signed_edge_bps" => call.result # "-0"

\* floor(r * 10^k / c) for r < c, one decimal digit at a time
RECURSIVE ScaledQuotient(_, _, _)
ScaledQuotient(r, c, k) ==
    IF k = 0 THEN 0
    ELSE ((r * 10) \div c) * 10^(k - 1) + ScaledQuotient((r * 10) % c, c, k - 1)

\* d * 10_000 / c in exact integers; U256Max + 1 stands for every value
\* beyond the maximum of U256
ExactBps(d, c) ==
    IF d \div c > U256Max \div 10000 THEN U256Max + 1
    ELSE Min((d \div c) * 10000 + ScaledQuotient(d % c, c, 4), U256Max + 1)

\* min(d * 10_000, maximum of U256) / c
SaturatedBps(d, c) ==
    IF d > U256Max \div 10000 THEN U256Max \div c ELSE (d * 10000) \div c

\* The decimal string of a signed magnitude
SignedString(negative, magnitude) ==
    IF negative THEN "-" \o ToString(magnitude) ELSE ToString(magnitude)

\* C18 as stated: signed_edge_bps(y, 0) = "0"; for x > 0,
\* signed_edge_bps(x, x) = "0", signed_edge_bps(2x, x) = "10000" and
\* signed_edge_bps(0, x) = "-10000"; in general the magnitude is
\* |output - cost| * 10_000 / cost.
C18_Original ==
    call.op = "signed_edge_bps" =>
        LET o == call.output
            c == call.total_cost
        IN  /\ c = 0 => call.result = "0"
            /\ (c > 0 /\ o = c) => call.result = "0"
            /\ (c > 0 /\ o = 2 * c) => call.result = "10000"
            /\ (c > 0 /\ o = 0) => call.result = "-10000"
            /\ c > 0 => call.result =
                   SignedString(o < c, ExactBps(IF o >= c THEN o - c ELSE c - o, c))

\* C18 as amended: signed_edge_bps(y, 0) = "0" and signed_edge_bps(x, x) =
\* "0"; signed_edge_bps(2x, x) = "10000" and signed_edge_bps(0, x) = "-10000"
\* for 0 < x <= MAX / 10_000; in general the magnitude is
\* min(|output - cost| * 10_000, MAX) / cost.
C18_Amended ==
    call.op = "signed_edge_bps" =>
        LET o == call.output
            c == call.total_cost
        IN  /\ c = 0 => call.result = "0"
            /\ (c > 0 /\ o = c) => call.result = "0"
            /\ (c > 0 /\ c <= U256Max \div 10000 /\ o = 2 * c) => call.result = "10000"
            /\ (c > 0 /\ c <= U256Max \div 10000 /\ o = 0) => call.result = "-10000"
            /\ c > 0 => call.result =
                   SignedString(o < c, SaturatedBps(IF o >= c THEN o - c ELSE c - o, c))

\* A total loss on the largest cost, printed as one basis point
C18_Witness ==
    /\ call.op = "signed_edge_bps"
    /\ call.output = 0
    /\ call.total_cost = U256Max
    /\ call.result = "-1"

----------------------------------------------------------------------------
(* The per-size evaluation: claims C19 and C20, stated over SpecArith *)

\* input + flash_fee + gas_cost, saturating, from the fields of a pass
CallTotalCost == Min(call.input + call.flash_fee + call.gas_cost, U256Max)

\* C19: no arithmetic step of the per-size evaluation overflows, underflows
\* or divides by zero: gas_cost, flash_fee and total_cost are the exact
\* products and sums cut at the maximum, the V2 quote stays in the unsigned
\* range, a zero total cost gives the edge "0" instead of a division by zero,
\* and every plain subtraction that is executed has a minuend at least as
\* large as its subtrahend.
C19_NoOverflowUnderflowDivZero ==
    call.op = "evaluate_size" =>
        /\ call.gas_cost = Min(call.gas_price * GasUnitsEstimate, U256Max)
        /\ call.flash_fee = Min(call.input * FlashLoanFeeBps, U256Max) \div 10000
        /\ call.v2_out_mid \in 0..U256Max
        /\ call.v2_out_mid <= Max(call.reserve0, call.reserve1)
        /\ IsSome(call.total_cost) => Unwrap(call.total_cost) = CallTotalCost
        /\ call.row.total_cost_wei = ToString(CallTotalCost)
        /\ CallTotalCost = 0 => call.row.edge_bps = "0"
        /\ \A s \in call.subtractions :
              /\ s.minuend >= s.subtrahend
              /\ s.minuend \in 0..U256Max
              /\ s.subtrahend \in 0..U256Max

\* A pass whose gas cost and total cost both saturate and whose row prints a
\* loss, the subtraction at line 985 being executed
C19_Witness ==
    /\ call.op = "evaluate_size"
    /\ call.gas_price > U256Max \div GasUnitsEstimate
    /\ call.gas_cost = U256Max
    /\ call.input + call.flash_fee + call.gas_cost > U256Max
    /\ call.row.total_cost_wei = ToString(U256Max)
    /\ \E s \in call.subtractions : s.line = 985 /\ s.minuend = U256Max

\* C20: every row produced by emit_row carries total_cost_wei = input +
\* flash_fee + gas_cost (saturating), net_wei = v3_out - total_cost when
\* v3_out > total_cost and 0 otherwise, and edge_bps = signed_edge_bps(v3_out,
\* total_cost); the total_cost of the classification ladder for that size is
\* the same value.
C20_RowCostNetEdge ==
    call.op = "evaluate_size" =>
        /\ call.row.input_wei = ToString(call.input)
        /\ call.row.flash_fee_wei = ToString(call.flash_fee)
        /\ call.row.gas_cost_wei = ToString(call.gas_cost)
        /\ call.row.v3_out_wei = ToString(call.v3_out)
        /\ call.row.total_cost_wei = ToString(CallTotalCost)
        /\ call.row.net_wei =
               ToString(IF call.v3_out > CallTotalCost THEN call.v3_out - CallTotalCost ELSE 0)
        /\ call.row.edge_bps = signed_edge_bps(call.v3_out, CallTotalCost)
        /\ IsSome(call.total_cost) =>
               call.row.total_cost_wei = ToString(Unwrap(call.total_cost))

\* A traded size: the ladder and the row agree on a total cost of 1015 with a
\* nonzero gas cost, and the row prints the net 1085
C20_Witness ==
    /\ call.op = "evaluate_size"
    /\ call.input = 1000
    /\ call.gas_cost = 10
    /\ call.v3_out = 2100
    /\ call.total_cost = Some(1015)
    /\ call.row.decision = "would_trade"
    /\ call.row.total_cost_wei = "1015"
    /\ call.row.net_wei = "1085"

----------------------------------------------------------------------------
(* The RPC the main loop awaits: claim C21, stated over Spec *)

\* call_block naming no block, which asks the node for its latest
call_block_Latest == None

\* let call_block = Some(BlockId::Number(BlockNumber::Number(block_number.into())))
call_block == Some(cur.block_number)

\* The request the main loop has issued and is awaiting at pc; block is the
\* block the call is pinned to, none meaning the latest block
pending_request ==
    CASE pc = "block_number" -> [method |-> "eth_blockNumber"]
      [] pc = "block" -> [method |-> "eth_getBlockByNumber", number |-> cur.block_number]
      [] pc = "gas_price" -> [method |-> "eth_gasPrice"]
      [] pc = "reserves" ->
            [method |-> "eth_call", to |-> "v2_pair", signature |-> "getReserves()",
             block |-> call_block]
      [] pc = "v3_quote" ->
            [method |-> "eth_call", to |-> "v3_quoter_v2",
             signature |-> "quoteExactInputSingle",
             token_in |-> "token_mid", token_out |-> "token_in",
             amount_in |-> v2_out_mid_of(cur, input_sizes[idx]),
             fee |-> "v3_pool_fee", block |-> call_block]
      [] OTHER -> [method |-> "none"]

\* C21: within one tick the getReserves call and every V3 quoter call are
\* pinned to the block number detected as new in that tick; the V3 call quotes
\* token_mid -> token_in with amount_in equal to the V2 output of its size.
C21_PinnedToTickBlock ==
    /\ pc = "reserves" =>
          /\ pending_request.signature = "getReserves()"
          /\ pending_request.block = last_block
          /\ IsSome(last_block)
    /\ pc = "v3_quote" =>
          /\ pending_request.block = last_block
          /\ IsSome(last_block)
          /\ pending_request.token_in = "token_mid"
          /\ pending_request.token_out = "token_in"
          /\ pending_request.amount_in =
                 quote_v2_exact_in(input_sizes[idx], cur.reserve0, cur.reserve1,
                                   V2FeeBps, v2_token0_to1)
          /\ pending_request.amount_in > 0
          /\ cur.reserve0 > 0 /\ cur.reserve1 > 0

\* The V3 quote of the second size, in the second tick of the run, pinned to
\* a block number below the one of the tick before
C21_Witness ==
    /\ pc = "v3_quote"
    /\ idx = 2
    /\ polls >= 2
    /\ pending_request.block = Some(1)
    /\ \E i \in DOMAIN hist : hist[i].kind = "row" /\ hist[i].block = 2

----------------------------------------------------------------------------
(* The disposition of RPC errors: claim C22, stated over Spec *)

\* A step in which one of the five RPCs of a tick answers Err
RpcErrStep == BlockNumberErr \/ GetBlockErr \/ GasPriceErr \/ ReservesErr \/ V3QuoteErr

\* The decision rows such a step writes
RowsOfStep == SelectSeq(SubSeq(out', Len(out) + 1, Len(out')), LAMBDA l : l.kind = "row")

\* The step called the gate once and the loop goes on: it waits for the next
\* tick or quotes the next size, or leaves at SHADOW_MAX_BLOCKS
GateLoggedAndContinues ==
    /\ gate_calls' = gate_calls + 1
    /\ \/ pc' \in {"sleep", "v3_quote"}
       \/ pc' = "done" /\ IsSome(max_blocks) /\ processed_blocks >= Unwrap(max_blocks)

\* C22 as stated: every RPC error of a tick (block number, block payload, gas
\* price, reserves, V3 quote) is logged through the gate, a quote_error row is
\* written for it, and the loop continues.
C22_Original ==
    [][RpcErrStep =>
          /\ GateLoggedAndContinues
          /\ RowsOfStep # <<>>
          /\ \A i \in DOMAIN RowsOfStep :
                normalized_reason(RowsOfStep[i].reason) = <<"quote_error">>]_vars

\* C22 as amended: an error of the block payload, gas price or reserves RPC is
\* logged through the gate and writes one quote_error row per input size, in
\* input order; an error of a V3 quote is logged and writes one quote_error
\* row for its size; an error of the block-number RPC is logged and writes no
\* row; in each case the loop continues.
C22_Amended ==
    [][/\ RpcErrStep => GateLoggedAndContinues
       /\ (GetBlockErr \/ GasPriceErr \/ ReservesErr) =>
             /\ Len(RowsOfStep) = Len(input_sizes)
             /\ \A i \in DOMAIN RowsOfStep :
                   /\ RowsOfStep[i].size_ix = i
                   /\ normalized_reason(RowsOfStep[i].reason) = <<"quote_error">>
                   /\ RowsOfStep[i].decision = "would_skip"
       /\ V3QuoteErr =>
             /\ RowsOfStep # <<>>
             /\ RowsOfStep[1].size_ix = idx
             /\ RowsOfStep[1].reason = <<"quote_error", Colon, "v3_quoter_failed">>
             /\ \A i \in DOMAIN RowsOfStep : i > 1 => RowsOfStep[i].size_ix > idx
       /\ BlockNumberErr => RowsOfStep = <<>>]_vars

\* A tick whose block-number RPC failed: the gate printed its line, no row
\* was written and no block was counted
C22_Witness ==
    /\ pc = "sleep"
    /\ polls = 1
    /\ gate_calls = 1
    /\ Len(out) = 1
    /\ out[1].kind = "log"
    /\ processed_blocks = 0
    /\ stats.rows_emitted = 0

----------------------------------------------------------------------------
(* emit_row returning Err: claim C23, stated over SpecEmitFault *)

\* emit_row returns Err (unix_now_millis finds the clock before the epoch, or
\* the row does not serialize) before it prints and before stats.record; the
\* "?" at its call site makes main return that Err: the code after the loop
\* is not run.  The three actions below are the first emit_row a step calls.

\* get_v2_reserves() answers Ok with nonzero reserves, the V2 quote of the
\* first size is zero, and its emit_row returns Err
ReservesOkEmitErr ==
    /\ pc = "reserves"
    /\ \E r \in ReservePairs :
         LET c == [cur EXCEPT !.reserve0 = r[1], !.reserve1 = r[2]]
         IN  /\ r[1] # 0 /\ r[2] # 0
             /\ v2_out_mid_of(c, input_sizes[1]) = 0
             /\ cur' = c
    /\ pc' = "failed"
    /\ UNCHANGED <<idx, last_block, processed_blocks, stats, gate, now, out, polls,
                   max_blocks, min_profit, sigint, gate_calls, glog, record_calls,
                   call, hist>>

\* quote_v3_exact_input_single() answers Ok for size idx and emit_row returns Err
V3QuoteOkEmitErr ==
    /\ pc = "v3_quote"
    /\ pc' = "failed"
    /\ UNCHANGED <<idx, last_block, processed_blocks, cur, stats, gate, now, out, polls,
                   max_blocks, min_profit, sigint, gate_calls, glog, record_calls,
                   call, hist>>

\* quote_v3_exact_input_single() answers Err for size idx: the gate is called,
\* then emit_row returns Err
V3QuoteErrEmitErr ==
    /\ pc = "v3_quote"
    /\ LET l == ErrorLogGate_log(gate, now, "v3 quoter call failed")
       IN  /\ gate' = l.gate
           /\ out' = out \o l.lines
    /\ gate_calls' = gate_calls + 1
    /\ pc' = "failed"
    /\ UNCHANGED <<idx, last_block, processed_blocks, cur, stats, now, polls,
                   max_blocks, min_profit, sigint, glog, record_calls, call, hist>>

NextEmitFault == Next \/ ReservesOkEmitErr \/ V3QuoteOkEmitErr \/ V3QuoteErrEmitErr

SpecEmitFault == Init /\ [][NextEmitFault]_vars

\* C23: a failure to build or serialize a decision row never terminates the
\* run and never prevents the final summary: the main loop goes on with the
\* next size or tick (and the stats are not updated for that row).
C23_EmitFailureContinues ==
    pc = "failed" =>
        \E i \in DOMAIN AllLines :
            AllLines[i].kind = "summary" /\ AllLines[i].summary_kind = "final"

----------------------------------------------------------------------------
(* The staleness gate: claim C24, stated over Spec *)

\* The rows of the current iteration written for a stale block
StaleRowIxs == {i \in RowIxs : normalized_reason(out[i].reason) = <<"stale_data">>}

\* max(now_unix - block.timestamp, 0) for the timestamps a block can carry
BlockAges == {IF WallNowSecs >= ts THEN WallNowSecs - ts ELSE 0 : ts \in BlockTimestamps}

\* C24: with block_age_secs = max(now_unix - block.timestamp, 0), a block
\* older than max_block_age_secs (strictly) gets exactly one would_skip row per
\* input size with reason stale_data:block_age_secs=<N>, and no gas-price,
\* reserves or V3 RPC is issued for it; a block of age <= max_block_age_secs
\* is not treated as stale.
C24_StaleBlock ==
    /\ \A i \in RowIxs :
          /\ out[i].block_age_secs \in BlockAges
          /\ out[i].block_age_secs > MaxBlockAgeSecs <=> i \in StaleRowIxs
    /\ StaleRowIxs # {} =>
          /\ pc \in {"sleep", "done"}
          /\ RowIxs = StaleRowIxs
          /\ Cardinality(RowIxs) = Len(input_sizes)
          /\ \A i \in RowIxs :
                /\ out[i].decision = "would_skip"
                /\ out[i].reason = <<"stale_data", ":", "block_age_secs=",
                                     ToString(out[i].block_age_secs)>>
                /\ out[i].input_wei = ToString(input_sizes[out[i].size_ix])
                /\ \A j \in RowIxs : (i < j) = (out[i].size_ix < out[j].size_ix)
          /\ cur.gas_price = 0 /\ cur.reserve0 = 0 /\ cur.reserve1 = 0
    /\ pc \in {"gas_price", "reserves", "v3_quote"} =>
          /\ cur.block_age_secs <= MaxBlockAgeSecs
          /\ cur.block_age_secs \in BlockAges
          /\ RowIxs \cap StaleRowIxs = {}

\* The second block of a run is one second older than the limit and has its
\* row for each size
C24_Witness ==
    /\ pc = "sleep"
    /\ Cardinality(StaleRowIxs) = Len(input_sizes)
    /\ \A i \in StaleRowIxs : out[i].block_age_secs = MaxBlockAgeSecs + 1
    /\ stats.blocks_seen = 2

----------------------------------------------------------------------------
(* A pair with a zero reserve: claim C25, stated over Spec *)

\* The rows of the current iteration written for a zero reserve
ZeroReserveRowIxs ==
    {i \in RowIxs : out[i].reason = <<"bad_pool_state", ":", "v2_zero_reserve">>}

\* C25: a new block whose reserves have reserve0 = 0 or reserve1 = 0 gets
\* exactly one row per input size, in input order, each would_skip with reason
\* bad_pool_state:v2_zero_reserve and zero-filled numeric fields; no V3 quote
\* is requested; and blocks_seen has been incremented for that block.
C25_ZeroReserve ==
    /\ ZeroReserveRowIxs # {} =>
          /\ pc \in {"sleep", "done"}
          /\ cur.reserve0 = 0 \/ cur.reserve1 = 0
          /\ RowIxs = ZeroReserveRowIxs
          /\ Cardinality(RowIxs) = Len(input_sizes)
          /\ \A i \in RowIxs :
                /\ out[i].decision = "would_skip"
                /\ out[i].input_wei = ToString(input_sizes[out[i].size_ix])
                /\ \A j \in RowIxs : (i < j) = (out[i].size_ix < out[j].size_ix)
                /\ out[i].gas_price_wei = "0" /\ out[i].gas_cost_wei = "0"
                /\ out[i].flash_fee_wei = "0" /\ out[i].total_cost_wei = "0"
                /\ out[i].v2_out_mid_wei = "0" /\ out[i].v3_out_wei = "0"
                /\ out[i].net_wei = "0" /\ out[i].edge_bps = "0"
                /\ last_block = Some(out[i].block)
                /\ out[i].tick = stats.blocks_seen
          /\ stats.blocks_seen = processed_blocks
          /\ stats.blocks_seen >= 1
    /\ (cur.reserve0 # cur.reserve1 /\ (cur.reserve0 = 0 \/ cur.reserve1 = 0)) =>
          ZeroReserveRowIxs # {}
    /\ pc = "v3_quote" => (cur.reserve0 # 0 /\ cur.reserve1 # 0)

\* The second block of a run has reserve0 = 0: its two rows are written and
\* blocks_seen is 2
C25_Witness ==
    /\ pc = "sleep"
    /\ cur.reserve0 = 0
    /\ Cardinality(ZeroReserveRowIxs) = Len(input_sizes)
    /\ stats.blocks_seen = 2
    /\ \A i \in ZeroReserveRowIxs : out[i].tick = 2

----------------------------------------------------------------------------
(* The periodic summary: claim C26, stated over Spec *)

\* The lines a step writes, and among them the periodic summaries and the rows
LinesOfStep == SubSeq(out', Len(out) + 1, Len(out'))
PeriodicOfStep ==
    {i \in DOMAIN LinesOfStep :
        LinesOfStep[i].kind = "summary" /\ LinesOfStep[i].summary_kind = "periodic"}
RowIxsOfStep == {i \in DOMAIN LinesOfStep : LinesOfStep[i].kind = "row"}

\* A step that ends the evaluation of a counted block, whatever its outcome
EndsCountedBlock == pc \in {"block", "gas_price", "reserves", "v3_quote"} /\ pc' \in {"sleep", "done"}

\* A step that ends the evaluation of a counted block by reaching the end of
\* the for loop over the input sizes
EndsForLoop == EndsCountedBlock /\ pc \in {"reserves", "v3_quote"} /\ cur'.reserve0 # 0 /\ cur'.reserve1 # 0

\* The periodic summary of a step, if any, is alone, follows every row of the
\* step and carries the block of the iteration
PeriodicWellPlaced ==
    /\ Cardinality(PeriodicOfStep) <= 1
    /\ \A s \in PeriodicOfStep :
          /\ \A i \in RowIxsOfStep : i < s
          /\ LinesOfStep[s].latest_block = cur'.block_number
          /\ LinesOfStep[s].blocks_seen = processed_blocks
    /\ PeriodicOfStep # {} => EndsCountedBlock

\* C26 as stated: for every new block counted, whatever the outcome of its
\* evaluation, one periodic summary is emitted after all rows of the block if
\* processed_blocks is a multiple of summary_every_blocks, and none otherwise.
C26_Original ==
    [][/\ PeriodicWellPlaced
       /\ EndsCountedBlock =>
             (PeriodicOfStep # {} <=> processed_blocks % summary_every_blocks = 0)]_vars

\* C26 as amended: one periodic summary is emitted for a counted block, after
\* all its rows, exactly when processed_blocks is a multiple of
\* summary_every_blocks and the evaluation of the block reached the end of the
\* loop over the input sizes; a block that is missing, stale, has a zero
\* reserve or whose payload, gas-price or reserves RPC failed gets none.
C26_Amended ==
    [][/\ PeriodicWellPlaced
       /\ EndsCountedBlock =>
             (PeriodicOfStep # {} <=>
                 (EndsForLoop /\ processed_blocks % summary_every_blocks = 0))]_vars

\* The block that brings processed_blocks to summary_every_blocks is stale:
\* its rows are written, the iteration is over and no summary was written
C26_Witness ==
    /\ pc = "sleep"
    /\ processed_blocks = summary_every_blocks
    /\ StaleRowIxs # {}
    /\ \A i \in DOMAIN AllLines : AllLines[i].kind # "summary"

----------------------------------------------------------------------------
(* SHADOW_MAX_BLOCKS: claim C27, stated over Spec *)

\* C27 as stated: with max_blocks set, the loop breaks at the end of the
\* iteration in which processed_blocks reaches max_blocks, whatever the outcome
\* of the block, so processed_blocks never exceeds max_blocks.
C27_Original ==
    IsSome(max_blocks) => processed_blocks <= Unwrap(max_blocks)

\* processed_blocks has reached max_blocks
HardStopDue == IsSome(max_blocks) /\ processed_blocks >= Unwrap(max_blocks)

\* C27 as amended: the loop is left only on cancellation during the wait or
\* at the end of an iteration that reached the end of the loop over the input
\* sizes with processed_blocks >= max_blocks; such an iteration always leaves
\* the loop, writing the final summary last; an iteration that restarts early
\* goes back to the wait whatever processed_blocks, which can so exceed
\* max_blocks.
C27_Amended ==
    [][/\ (pc # "done" /\ pc' = "done") => (pc = "sleep" \/ (EndsForLoop /\ HardStopDue))
       /\ (EndsForLoop /\ HardStopDue) =>
             /\ pc' = "done"
             /\ out'[Len(out')].kind = "summary"
             /\ out'[Len(out')].summary_kind = "final"
             /\ out'[Len(out')].blocks_seen = processed_blocks
       /\ (EndsCountedBlock /\ ~EndsForLoop) => pc' = "sleep"
       /\ (EndsCountedBlock /\ ~HardStopDue) => pc' = "sleep"]_vars

\* A run with max_blocks set that counted one block more than max_blocks,
\* the block that reached it having been stale or failed, and then stopped
C27_Witness ==
    /\ pc = "done"
    /\ IsSome(max_blocks)
    /\ processed_blocks = Unwrap(max_blocks) + 1
    /\ \E i \in DOMAIN out : out[i].kind = "info" /\ out[i].text = "reached SHADOW_MAX_BLOCKS"
    /\ out[Len(out)].kind = "summary"
    /\ out[Len(out)].summary_kind = "final"

----------------------------------------------------------------------------
(* The log sanitizers of shadow_route and heartbeat.  A text is a sequence of
   fragments: a fragment is one character (a blank, a bracket, a quote, a
   punctuation mark), a scheme with its "://", or a run of other characters
   that holds none of the former. *)

Blank == " "
Schemes == {"https://", "ws://"}
LeadingChars == {"\"", "'", "(", "[", "{", "<"}
TrailingChars == {"\"", "'", ")", "]", "}", ">", ",", ".", ";", ":"}

\* message.split_whitespace(): the maximal runs of fragments that are not blank
RECURSIVE split_whitespace_from(_, _)
split_whitespace_from(message, token) ==
    IF message = <<>> THEN (IF token = <<>> THEN <<>> ELSE <<token>>)
    ELSE IF Head(message) = Blank
    THEN (IF token = <<>> THEN <<>> ELSE <<token>>)
         \o split_whitespace_from(Tail(message), <<>>)
    ELSE split_whitespace_from(Tail(message), Append(token, Head(message)))

split_whitespace(message) == split_whitespace_from(message, <<>>)

\* .collect::<Vec<_>>().join(" ")
RECURSIVE join_blank(_)
join_blank(tokens) ==
    IF tokens = <<>> THEN <<>>
    ELSE IF Len(tokens) = 1 THEN tokens[1]
    ELSE tokens[1] \o <<Blank>> \o join_blank(Tail(tokens))

\* token.chars().take_while(..): how many fragments at the start of the token
\* are opening characters, and how many at its end are closing characters
RECURSIVE leading_count(_)
leading_count(token) ==
    IF token # <<>> /\ Head(token) \in LeadingChars
    THEN 1 + leading_count(Tail(token)) ELSE 0

RECURSIVE trailing_count(_)
trailing_count(token) ==
    IF token # <<>> /\ token[Len(token)] \in TrailingChars
    THEN 1 + trailing_count(SubSeq(token, 1, Len(token) - 1)) ELSE 0

\* reqwest::Url::parse on what follows the scheme: the host runs to the first
\* fragment that starts a path; "<" or ">" in it is a forbidden host code point,
\* and a second scheme gives its name as host text followed by an empty port.
\* The answer is the host, or none when the parse fails (as on an empty host).
RECURSIVE url_host(_, _)
url_host(rest, host) ==
    IF rest = <<>> \/ Head(rest) \in {"/p", "/.../"}
    THEN (IF host = <<>> THEN None ELSE Some(host))
    ELSE IF Head(rest) \in Schemes
    THEN Some(Append(host, IF Head(rest) = "https://" THEN "https" ELSE "ws"))
    ELSE IF Head(rest) \in {"<", ">"} THEN None
    ELSE url_host(Tail(rest), Append(host, Head(rest)))

\* heartbeat masked_rpc_url: "{scheme}://{host}/.../<hidden>" or "<invalid-url>"
masked_rpc_url(url) ==
    LET host == url_host(Tail(url), <<>>)
    IN  IF IsSome(host)
        THEN <<Head(url)>> \o Unwrap(host) \o <<"/.../", "<", "hidden", ">">>
        ELSE <<"<", "invalid-url", ">">>

\* shadow_route sanitize_token
sanitize_token(token) ==
    LET leading == leading_count(token)
        trailing == trailing_count(token)
        core_end == Len(token) - trailing
        core == SubSeq(token, leading + 1, core_end)
    IN  IF leading + trailing >= Len(token) THEN token
        ELSE IF Head(core) \in Schemes
        THEN SubSeq(token, 1, leading) \o <<"<", "redacted-url", ">">>
             \o SubSeq(token, core_end + 1, Len(token))
        ELSE token

\* heartbeat sanitize_token
heartbeat_sanitize_token(token) ==
    LET leading == leading_count(token)
        trailing == trailing_count(token)
        core_end == Len(token) - trailing
        core == SubSeq(token, leading + 1, core_end)
    IN  IF leading + trailing >= Len(token) THEN token
        ELSE IF Head(core) \in Schemes
        THEN SubSeq(token, 1, leading) \o masked_rpc_url(core)
             \o SubSeq(token, core_end + 1, Len(token))
        ELSE token

\* shadow_route sanitize_log_text
sanitize_log_text(message) ==
    LET tokens == split_whitespace(message)
    IN  join_blank([i \in 1..Len(tokens) |-> sanitize_token(tokens[i])])

\* heartbeat sanitize_log_text
heartbeat_sanitize_log_text(message) ==
    LET tokens == split_whitespace(message)
    IN  join_blank([i \in 1..Len(tokens) |-> heartbeat_sanitize_token(tokens[i])])

\* The messages sanitized: every text of up to MaxMessageLen fragments
MaxMessageLen == 5
MessageFragments == {Blank, "<", ">", "https://", "ws://", "host", "/p"}
Messages == UNION {[1..n -> MessageFragments] : n \in 0..MaxMessageLen}

\* sanitize_log_text of shadow_route applied to a message, then to its result
CallSanitizeLogText ==
    /\ pc = "unit"
    /\ call = CallNone
    /\ \E message \in Messages :
         call' = [op |-> "sanitize_log_text", file |-> "shadow_route",
                  message |-> message, once |-> sanitize_log_text(message),
                  twice |-> sanitize_log_text(sanitize_log_text(message))]
    /\ UNCHANGED <<main_vars, stats, gate, now, gate_calls, glog, record_calls>>

\* sanitize_log_text of heartbeat applied to a message, then to its result
CallHeartbeatSanitizeLogText ==
    /\ pc = "unit"
    /\ call = CallNone
    /\ \E message \in Messages :
         call' = [op |-> "sanitize_log_text", file |-> "heartbeat",
                  message |-> message, once |-> heartbeat_sanitize_log_text(message),
                  twice |-> heartbeat_sanitize_log_text(heartbeat_sanitize_log_text(message))]
    /\ UNCHANGED <<main_vars, stats, gate, now, gate_calls, glog, record_calls>>

NextSanitize == CallSanitizeLogText \/ CallHeartbeatSanitizeLogText
SpecSanitize == InitArith /\ [][NextSanitize]_vars

\* C28: the log sanitizer is idempotent, in both of its forms: sanitizing a
\* sanitized message gives the same message.
C28_Idempotent ==
    call.op = "sanitize_log_text" => call.twice = call.once

----------------------------------------------------------------------------
(* Route validation at startup: claim C29, stated over SpecRoute *)

\* The addresses tokens can have, and the V3 fee tiers
RouteAddresses == {"A", "B", "C"}
\* The strings of the configuration: hexadecimal in either case, with or
\* without blanks around, or no address at all
AddressStrings == {"0xa", "0xA", " 0xb ", "0xc", "zz"}
RouteFees == {500, 3000}

\* parse_address: none when the string is not an address
parse_address(value) == CASE value \in {"0xa", "0xA"} -> Some("A") [] value = " 0xb " -> Some("B") [] value = "0xc" -> Some("C") [] OTHER -> None

\* parse_and_validate_route without the test of the V3 pool's fee
parse_and_validate_route_NoFeeTest(raw, chain) ==
    LET token_in == parse_address(raw.token_in_address)
        token_mid == parse_address(raw.token_mid_address)
        in == Unwrap(token_in)
        mid == Unwrap(token_mid)
        Err(e) == [ok |-> FALSE, error |-> e]
    IN  IF ~IsSome(token_in) \/ ~IsSome(token_mid) THEN Err("invalid address")
        ELSE IF ~IsSome(chain.v2_token0) \/ ~IsSome(chain.v2_token1)
        THEN Err("eth_call failed")
        ELSE IF ~(\/ chain.v2_token0 = token_in /\ chain.v2_token1 = token_mid
                  \/ chain.v2_token0 = token_mid /\ chain.v2_token1 = token_in)
        THEN Err("bad_pool_state: v2 pair token mismatch")
        ELSE IF ~IsSome(chain.v3_token0) \/ ~IsSome(chain.v3_token1) \/ ~IsSome(chain.v3_fee)
        THEN Err("eth_call failed")
        ELSE IF ~(\/ chain.v3_token0 = token_in /\ chain.v3_token1 = token_mid
                  \/ chain.v3_token0 = token_mid /\ chain.v3_token1 = token_in)
        THEN Err("bad_pool_state: v3 pool token mismatch")
        ELSE [ok |-> TRUE,
              route |-> [token_in |-> in, token_mid |-> mid,
                         v2_fee_bps |-> Min(raw.v2_fee_bps, 10000),
                         v2_token0_to1 |-> (chain.v2_token0 = token_in
                                            /\ chain.v2_token1 = token_mid),
                         v3_pool_fee |-> Unwrap(chain.v3_fee)]]

\* parse_and_validate_route: raw is the RouteConfig, chain what the views
\* token0(), token1() of the pair and token0(), token1(), fee() of the pool
\* answer (none when the call or its decoding fails)
parse_and_validate_route(raw, chain) ==
    LET token_in == parse_address(raw.token_in_address)
        token_mid == parse_address(raw.token_mid_address)
        in == Unwrap(token_in)
        mid == Unwrap(token_mid)
        Err(e) == [ok |-> FALSE, error |-> e]
    IN  IF ~IsSome(token_in) \/ ~IsSome(token_mid) THEN Err("invalid address")
        ELSE IF ~IsSome(chain.v2_token0) \/ ~IsSome(chain.v2_token1)
        THEN Err("eth_call failed")
        ELSE IF ~(\/ chain.v2_token0 = token_in /\ chain.v2_token1 = token_mid
                  \/ chain.v2_token0 = token_mid /\ chain.v2_token1 = token_in)
        THEN Err("bad_pool_state: v2 pair token mismatch")
        ELSE IF ~IsSome(chain.v3_token0) \/ ~IsSome(chain.v3_token1) \/ ~IsSome(chain.v3_fee)
        THEN Err("eth_call failed")
        ELSE IF ~(\/ chain.v3_token0 = token_in /\ chain.v3_token1 = token_mid
                  \/ chain.v3_token0 = token_mid /\ chain.v3_token1 = token_in)
        THEN Err("bad_pool_state: v3 pool token mismatch")
        ELSE IF Unwrap(chain.v3_fee) # raw.v3_pool_fee
        THEN Err("bad_pool_state: v3 pool fee mismatch")
        ELSE [ok |-> TRUE,
              route |-> [token_in |-> in, token_mid |-> mid,
                         v2_fee_bps |-> Min(raw.v2_fee_bps, 10000),
                         v2_token0_to1 |-> (chain.v2_token0 = token_in
                                            /\ chain.v2_token1 = token_mid),
                         v3_pool_fee |-> Unwrap(chain.v3_fee)]]

\* main before the loop, about to validate the route
InitRoute ==
    /\ pc = "startup"
    /\ idx = 0 /\ last_block = None /\ processed_blocks = 0 /\ cur = CurDefault
    /\ out = <<>> /\ hist = <<>> /\ polls = 0 /\ max_blocks = None
    /\ min_profit = 0 /\ sigint = None
    /\ stats = StatsDefault /\ record_calls = 0 /\ call = CallNone
    /\ gate = ErrorLogGate_new(MinIntervalMs) /\ now = 0 /\ gate_calls = 0
    /\ glog = GlogInit

\* let route = parse_and_validate_route(&provider, &config.route).await?: on
\* Ok main goes on to the loop, on Err it returns
ValidateRoute ==
    /\ pc = "startup"
    /\ \E tin \in AddressStrings, tmid \in AddressStrings, fee \in RouteFees, bps \in {0, 30, 10000, 10001}, a0 \in RouteAddresses \cup {"err"}, a1 \in RouteAddresses \cup {"err"}, b0 \in RouteAddresses \cup {"err"}, b1 \in RouteAddresses \cup {"err"}, f \in RouteFees \cup {0} :
         LET answer(x) == IF x = "err" THEN None ELSE Some(x)
             raw == [token_in_address |-> tin, token_mid_address |-> tmid,
                     v2_fee_bps |-> bps, v3_pool_fee |-> fee]
             chain == [v2_token0 |-> answer(a0), v2_token1 |-> answer(a1),
                       v3_token0 |-> answer(b0), v3_token1 |-> answer(b1),
                       v3_fee |-> IF f = 0 THEN None ELSE Some(f)]
             result == parse_and_validate_route(raw, chain)
         IN  /\ call' = [op |-> "parse_and_validate_route", raw |-> raw,
                         chain |-> chain, result |-> result]
             /\ pc' = IF result.ok THEN "sleep" ELSE "failed"
    /\ UNCHANGED <<idx, last_block, processed_blocks, cur, out, hist, polls, max_blocks,
                   min_profit, sigint, stats, gate, now, gate_calls, glog, record_calls>>

SpecRoute == InitRoute /\ [][ValidateRoute]_vars

\* The conditions of the claim on what the chain answered
PairMatches(raw, chain) ==
    \/ chain.v2_token0 = parse_address(raw.token_in_address) /\ chain.v2_token1 = parse_address(raw.token_mid_address)
    \/ chain.v2_token0 = parse_address(raw.token_mid_address) /\ chain.v2_token1 = parse_address(raw.token_in_address)
PoolMatches(raw, chain) ==
    /\ IsSome(chain.v3_token0) /\ IsSome(chain.v3_token1)
    /\ {chain.v3_token0, chain.v3_token1} = {parse_address(raw.token_in_address), parse_address(raw.token_mid_address)}
    /\ chain.v3_fee = Some(raw.v3_pool_fee)

\* C29: validation succeeds only if the pair's (token0, token1) is (token_in,
\* token_mid) or its reverse, the pool's token set is {token_in, token_mid} and
\* its fee is the configured one; when the chain answers otherwise, startup
\* fails with a bad_pool_state error; on any failure the main loop is not
\* entered; on success v2_token0_to1 holds iff the pair's token0 is token_in
\* and the stored v2_fee_bps is in [0, 10_000].
C29_RouteValidation ==
    call.op = "parse_and_validate_route" =>
        LET raw == call.raw
            chain == call.chain
            r == call.result
            answered == \A k \in DOMAIN chain : IsSome(chain[k])
        IN  /\ r.ok =>
                 /\ PairMatches(raw, chain)
                 /\ PoolMatches(raw, chain)
                 /\ r.route.v2_token0_to1 <=> chain.v2_token0 = Some(r.route.token_in)
                 /\ r.route.v2_fee_bps \in 0..10000
                 /\ r.route.v2_fee_bps = Min(raw.v2_fee_bps, 10000)
                 /\ pc = "sleep"
            /\ ~r.ok => pc = "failed"
            /\ (answered /\ IsSome(parse_address(raw.token_in_address))
                  /\ IsSome(parse_address(raw.token_mid_address))
                  /\ ~(PairMatches(raw, chain) /\ PoolMatches(raw, chain))) =>
                 /\ ~r.ok
                 /\ r.error \in {"bad_pool_state: v2 pair token mismatch",
                                 "bad_pool_state: v3 pool token mismatch",
                                 "bad_pool_state: v3 pool fee mismatch"}

\* A route whose pair lists token_mid first and whose configured V2 fee is
\* above 10_000 bps is accepted, with v2_token0_to1 false and the fee cut
C29_Witness ==
    /\ call.op = "parse_and_validate_route"
    /\ call.result.ok
    /\ pc = "sleep"
    /\ call.result.route.token_in # call.result.route.token_mid
    /\ call.chain.v2_token0 = Some(call.result.route.token_mid)
    /\ call.raw.v2_fee_bps = 10001
    /\ call.result.route.v2_fee_bps = 10000
    /\ ~call.result.route.v2_token0_to1

----------------------------------------------------------------------------
(* The block-number RPC failing: claim C30, stated over Spec *)

\* C30: when the block-number RPC fails in a tick the failure is passed to
\* the log gate and nothing else changes: last_block, processed_blocks,
\* blocks_seen and all the stats are unchanged, the block under evaluation and
\* the size index are unchanged, the step writes no decision row and no
\* summary (at most the gate's own log line), and the loop goes back to the
\* wait of the next tick.
C30_BlockNumberErrFrame ==
    [][BlockNumberErr =>
          /\ gate_calls' = gate_calls + 1
          /\ gate' = ErrorLogGate_log(gate, now, "block fetch failed (retrying)").gate
          /\ UNCHANGED <<last_block, processed_blocks, stats, cur, idx, record_calls,
                         max_blocks, min_profit, hist>>
          /\ stats'.blocks_seen = stats.blocks_seen
          /\ Len(LinesOfStep) <= 1
          /\ \A i \in DOMAIN LinesOfStep :
                /\ LinesOfStep[i].stream = "stderr"
                /\ LinesOfStep[i].kind = "log"
                /\ LinesOfStep[i].prefix = "block fetch failed (retrying)"
          /\ pc' = "sleep"]_vars

\* After one block was counted and its sizes evaluated, the block-number RPC
\* of a later tick has failed and the gate has printed the failure: the
\* counters still show the one block
C30_Witness ==
    /\ pc = "sleep"
    /\ polls >= 2
    /\ processed_blocks = 1
    /\ stats.blocks_seen = 1
    /\ IsSome(last_block)
    /\ stats.rows_emitted = Len(input_sizes)
    /\ out = <<GateLine("log", "block fetch failed (retrying)", None, now)>>

----------------------------------------------------------------------------
(* New-block detection: claims C31 and C36, stated over Spec *)

\* What one answer of get_block_number does: the same number as last_block
\* changes nothing and writes nothing; another number is stored in last_block
\* and both counters go up by one, before the block is fetched
BlockNumberOkEffect ==
    BlockNumberOk =>
       \/ /\ pc' = "sleep"
          /\ UNCHANGED <<idx, last_block, processed_blocks, cur, stats, gate, now, out, hist,
                         polls, max_blocks, min_profit, sigint, gate_calls, glog,
                         record_calls, call>>
       \/ /\ IsSome(last_block') /\ last_block' # last_block
          /\ cur'.block_number = Unwrap(last_block')
          /\ processed_blocks' = processed_blocks + 1
          /\ stats' = [stats EXCEPT !.blocks_seen = @ + 1]
          /\ pc' = "block"
          /\ UNCHANGED <<idx, gate, now, out, hist, polls, gate_calls, record_calls>>

\* C31 as stated: a tick whose block number equals last_block changes no
\* state and emits nothing; a tick whose number differs increments
\* processed_blocks and blocks_seen by one each before any further RPC, so
\* blocks_seen = processed_blocks always; and a block is never evaluated
\* again: all the rows of one block number belong to one tick.
C31_Original ==
    /\ [](stats.blocks_seen = processed_blocks)
    /\ [][BlockNumberOkEffect]_vars
    /\ [](\A i \in AllRowIxs, j \in AllRowIxs :
             AllLines[i].block = AllLines[j].block => AllLines[i].tick = AllLines[j].tick)

\* C31 as amended: the same, except that a block is not evaluated again only
\* while last_block still holds its number: the rows of two consecutive
\* counted ticks never have the same block number.
C31_Amended ==
    /\ [](stats.blocks_seen = processed_blocks)
    /\ [][BlockNumberOkEffect]_vars
    /\ [](\A i \in AllRowIxs, j \in AllRowIxs :
             AllLines[j].tick = AllLines[i].tick + 1 => AllLines[i].block # AllLines[j].block)

\* An RPC of the one counted block failed (the gate was called and a row per
\* size was written for it), and a later tick that reported the same number
\* has ended without a line and without a change of the counters
C31_Witness ==
    /\ pc = "sleep"
    /\ polls >= 2
    /\ out = <<>>
    /\ processed_blocks = 1
    /\ stats.blocks_seen = 1
    /\ stats.rows_emitted = Len(input_sizes)
    /\ stats.would_skip = Len(input_sizes)
    /\ gate.suppressed = 0
    /\ gate_calls = 1

----------------------------------------------------------------------------
(* The for loop over the input sizes: claims C32 and C33, stated over Spec *)

\* The sizes a step of the for loop has dealt with: from the size whose quote
\* was pending up to the size whose quote is pending next, or to the last one
SizesOfStep == idx .. (IF pc' = "v3_quote" THEN idx' - 1 ELSE Len(input_sizes))

\* C32: when the V3 quote fails for one input size, exactly one would_skip
\* row with reason quote_error:v3_quoter_failed and v3_out_wei = 0 is written
\* for that size, whatever the gas price, and the remaining sizes of the block
\* are still evaluated in order: the step writes one row for each size up to
\* the next size whose V3 quote it awaits (or up to the last size), in
\* ascending order, all for the same block.
C32_V3QuoteFailure ==
    [][V3QuoteErr =>
          /\ Len(RowsOfStep) = Cardinality(SizesOfStep)
          /\ \A i \in DOMAIN RowsOfStep :
                /\ RowsOfStep[i].size_ix = idx + i - 1
                /\ RowsOfStep[i].block = cur.block_number
                /\ RowsOfStep[i].input_wei = ToString(input_sizes[idx + i - 1])
                /\ RowsOfStep[i].decision = "would_skip"
          /\ RowsOfStep[1].reason = R_v3_quoter_failed
          /\ RowsOfStep[1].v3_out_wei = "0"
          /\ RowsOfStep[1].v2_out_mid_wei = ToString(v2_out_mid_of(cur, input_sizes[idx]))
          /\ \A i \in DOMAIN RowsOfStep : i > 1 => RowsOfStep[i].reason = R_v2_out_zero
          /\ stats'.rows_emitted = stats.rows_emitted + Len(RowsOfStep)
          /\ stats'.would_skip = stats.would_skip + Len(RowsOfStep)
          /\ \/ pc' = "v3_quote" /\ idx' > idx /\ cur' = cur
             \/ pc' \in {"sleep", "done"} /\ idx' = 0]_vars

\* The V3 quote of the first size has failed at a gas price above the limit:
\* its row is quote_error:v3_quoter_failed and the quote of the second size
\* is awaited
C32_Witness ==
    /\ pc = "v3_quote"
    /\ idx = 2
    /\ cur.gas_price > MaxGasPriceWei
    /\ \E i \in RowIxs :
          /\ out[i].size_ix = 1
          /\ out[i].reason = R_v3_quoter_failed
          /\ out[i].v3_out_wei = "0"
          /\ out[i].decision = "would_skip"
    /\ Cardinality(RowIxs) = 1

\* A step that runs the for loop: the reserves have arrived and are nonzero,
\* or the V3 quote of a size has been answered
RunsForLoop ==
    \/ ReservesOk /\ cur'.reserve0 # 0 /\ cur'.reserve1 # 0
    \/ V3QuoteOk
    \/ V3QuoteErr

\* The sizes such a step goes through without awaiting their V3 quote
SizesPassed ==
    (IF pc = "reserves" THEN 1 ELSE idx + 1) .. (IF pc' = "v3_quote" THEN idx' - 1 ELSE Len(input_sizes))

\* quote_v2_exact_in is zero for an input of 0 and for a fee of 10_000 bps or
\* more, whatever the reserves and the direction
ZeroInputOrFullFeeQuotesZero ==
    \A amount_in \in V2Amounts, reserve0 \in V2Reserves, reserve1 \in V2Reserves, fee_bps \in V2FeeBpsValues, token0_to1 \in BOOLEAN :
        (amount_in = 0 \/ fee_bps >= BpsDenominator) =>
            quote_v2_exact_in(amount_in, reserve0, reserve1, fee_bps, token0_to1) = 0

\* C33: when quote_v2_exact_in returns zero for an input size (as it does for
\* an input of 0 or a V2 fee of 10_000 bps), exactly one would_skip row with
\* reason bad_pool_state:v2_out_zero is written for that size, the V3 quoter
\* is not called for it (the quote awaited next is that of a size whose V2
\* quote is nonzero), and the evaluation goes on with the next size.
C33_V2OutZero ==
    /\ ZeroInputOrFullFeeQuotesZero
    /\ [][RunsForLoop =>
             /\ \A k \in SizesPassed :
                   /\ v2_out_mid_of(cur', input_sizes[k]) = 0
                   /\ \E i \in DOMAIN RowsOfStep :
                         /\ RowsOfStep[i].size_ix = k
                         /\ RowsOfStep[i].reason = R_v2_out_zero
                         /\ RowsOfStep[i].decision = "would_skip"
                         /\ RowsOfStep[i].v2_out_mid_wei = "0"
                         /\ RowsOfStep[i].v3_out_wei = "0"
                         /\ \A j \in DOMAIN RowsOfStep : RowsOfStep[j].size_ix = k => j = i
             /\ \A i \in DOMAIN RowsOfStep :
                   RowsOfStep[i].reason = R_v2_out_zero => RowsOfStep[i].size_ix \in SizesPassed
             /\ pc' = "v3_quote" =>
                   /\ idx' \in DOMAIN input_sizes
                   /\ v2_out_mid_of(cur', input_sizes[idx']) # 0
             /\ pc' # "v3_quote" => pc' \in {"sleep", "done"}]_vars

\* The V2 quote of the first size was zero and that of the second was not:
\* one v2_out_zero row for the first, the V3 quote of the second is awaited
C33_Witness ==
    /\ pc = "v3_quote"
    /\ idx = 2
    /\ v2_out_mid_of(cur, input_sizes[1]) = 0
    /\ Cardinality(RowIxs) = 1
    /\ \E i \in RowIxs :
          /\ out[i].size_ix = 1
          /\ out[i].reason = R_v2_out_zero
          /\ out[i].decision = "would_skip"

----------------------------------------------------------------------------
(* One row per counted block and input size: claim C34, stated over Spec *)

\* C34: absent cancellation and a failure of emit_row, every counted block
\* yields exactly one decision row per configured input size on every path,
\* so whenever the loop is at the wait of a tick rows_emitted =
\* blocks_seen * |input_sizes|, and the rows written are one for each counted
\* block and each size.
C34_OneRowPerBlockAndSize ==
    pc = "sleep" =>
        /\ stats.rows_emitted = stats.blocks_seen * Len(input_sizes)
        /\ Cardinality(AllRowIxs) = stats.blocks_seen * Len(input_sizes)
        /\ \A t \in 1..processed_blocks, k \in DOMAIN input_sizes :
              \E i \in AllRowIxs :
                 /\ AllLines[i].tick = t /\ AllLines[i].size_ix = k
                 /\ \A j \in AllRowIxs :
                       (AllLines[j].tick = t /\ AllLines[j].size_ix = k) => j = i

\* Three blocks were counted, one on a path with an RPC error and one with a
\* would_trade row: six rows at the wait of the next tick
C34_Witness ==
    /\ pc = "sleep"
    /\ stats.blocks_seen = 3
    /\ stats.rows_emitted = 3 * Len(input_sizes)
    /\ stats.would_trade >= 1
    /\ gate_calls >= 1

----------------------------------------------------------------------------
(* The histogram against the counters: claim C35, stated over SpecStatsOrMain *)

\* ShadowStats alone and ShadowStats inside the main loop: a run is either a
\* sequence of record calls on a fresh ShadowStats or a run of main
InitStatsOrMain == InitStats \/ Init
NextStatsOrMain == NextStats \/ Next
SpecStatsOrMain == InitStatsOrMain /\ [][NextStatsOrMain]_vars

\* The sum of the values of a map
RECURSIVE SumValues(_)
SumValues(m) ==
    IF DOMAIN m = {} THEN 0
    ELSE LET k == CHOOSE x \in DOMAIN m : TRUE
         IN  m[k] + SumValues([x \in DOMAIN m \ {k} |-> m[x]])

\* C35 as stated: after any sequence of record calls the sum of all
\* reason_counts values equals rows_emitted, and in every state of the main
\* loop reason_counts["edge_above_threshold"] (0 if absent) equals would_trade.
C35_Original ==
    /\ SumValues(stats.reason_counts) = stats.rows_emitted
    /\ pc # "unit" =>
          MapGet(stats.reason_counts, normalized_reason(R_edge_above_threshold)) = stats.would_trade

\* C35 as amended: rows_emitted equals the sum of all reason_counts values
\* capped at the maximum of the u64 counter (the counters saturate one by one,
\* so the two are equal while rows_emitted is below the maximum, and the sum
\* can be larger once it is reached); in every state of the main loop
\* reason_counts["edge_above_threshold"] (0 if absent) equals would_trade.
C35_Amended ==
    /\ stats.rows_emitted = Min(SumValues(stats.reason_counts), U64Max)
    /\ stats.rows_emitted < U64Max => SumValues(stats.reason_counts) = stats.rows_emitted
    /\ pc # "unit" =>
          MapGet(stats.reason_counts, normalized_reason(R_edge_above_threshold)) = stats.would_trade

\* The main loop has written would_trade rows and rows of two other reasons
C35_Witness ==
    /\ pc = "sleep"
    /\ stats.would_trade >= 1
    /\ stats.would_skip >= 2
    /\ Cardinality(DOMAIN stats.reason_counts) >= 3
    /\ MapGet(stats.reason_counts, normalized_reason(R_edge_above_threshold)) = stats.would_trade

----------------------------------------------------------------------------
(* A block number below last_block: claim C36, stated over Spec *)

\* C36: new-block detection compares only for inequality with last_block, so
\* a polled block number lower than last_block is treated as a new block:
\* whenever the block number is being polled, each number other than
\* last_block, lower ones included, can be answered and is then stored in
\* last_block (which moves backwards), counted in processed_blocks and
\* blocks_seen, and evaluated; the rows an iteration has written are rows of
\* the number last_block holds.
C36_LowerNumberIsNewBlock ==
    /\ pc = "block_number" =>
          \A n \in BlockNumbers :
             last_block # Some(n) =>
                ENABLED (/\ BlockNumberOk
                         /\ last_block' = Some(n)
                         /\ cur'.block_number = n
                         /\ processed_blocks' = processed_blocks + 1
                         /\ stats'.blocks_seen = stats.blocks_seen + 1
                         /\ pc' = "block")
    /\ (pc \in {"sleep", "done"} /\ RowIxs # {}) =>
          /\ IsSome(last_block)
          /\ \A i \in RowIxs : out[i].block = Unwrap(last_block) /\ out[i].tick = processed_blocks
          /\ {out[i].size_ix : i \in RowIxs} = DOMAIN input_sizes

\* The RPC has answered a number, then a higher one, then the first again:
\* last_block has moved backwards and the first number has rows from two
\* iterations, with rows of the higher number between them
C36_Witness ==
    /\ pc = "sleep"
    /\ processed_blocks = 3
    /\ stats.blocks_seen = 3
    /\ \E i \in AllRowIxs, j \in AllRowIxs, k \in AllRowIxs :
          /\ i < j /\ j < k
          /\ AllLines[i].block = AllLines[k].block
          /\ AllLines[j].block > AllLines[k].block
          /\ AllLines[i].tick = 1 /\ AllLines[j].tick = 2 /\ AllLines[k].tick = 3
          /\ last_block = Some(AllLines[k].block)

----------------------------------------------------------------------------
(* quote_v2_exact_in never drains the pool: claim C37, stated over SpecArith *)

\* C37: for all amount_in, fee_bps and nonzero reserves over the full
\* unsigned range, the inputs where the intermediate product or sum saturates
\* included, quote_v2_exact_in returns a value strictly less than the reserve
\* of the output side.
C37_BelowReserveOut ==
    (call.op = "quote_v2_exact_in" /\ call.reserve0 # 0 /\ call.reserve1 # 0) =>
        /\ call.result < CallReserveOut
        /\ call.result \in 0..U256Max

\* A quote whose product and whose sum both saturate: the largest amount
\* against the largest reserves gives 1
C37_Witness ==
    /\ call.op = "quote_v2_exact_in"
    /\ call.amount_in = U256Max
    /\ CallReserveIn = U256Max
    /\ CallReserveOut = U256Max
    /\ call.fee_bps = 30
    /\ call.result = 1

----------------------------------------------------------------------------
(* reconnect_backoff of providers.rs and of heartbeat.rs: claim C38, stated  *)
(* over SpecBackoff                                                          *)

MsBits == 12                  \* width of the u64 of milliseconds, scaled down
MsMax == 2^MsBits - 1
MaxAttempt == 13              \* attempts tried: past the step limit of 10

\* u64::saturating_mul on milliseconds
SatMulMs(a, b) == IF a * b > MsMax THEN MsMax ELSE a * b

\* reconnect_backoff of providers.rs with max_ms as the cap, whatever initial_ms
reconnect_backoff_CapIsMaxMs(initial_ms, max_ms, attempt) ==
    LET step == Min(IF attempt >= 1 THEN attempt - 1 ELSE 0, 10)
        factor == 2^step
        delay_ms == Min(SatMulMs(initial_ms, factor), max_ms)
    IN  delay_ms

\* reconnect_backoff of providers.rs, in milliseconds
reconnect_backoff(initial_ms, max_ms, attempt) ==
    LET step == Min(IF attempt >= 1 THEN attempt - 1 ELSE 0, 10)
        factor == 2^step
        max_ms_ == Max(max_ms, initial_ms)
        delay_ms == Min(SatMulMs(initial_ms, factor), max_ms_)
    IN  delay_ms

\* reconnect_backoff of heartbeat.rs, in milliseconds
heartbeat_reconnect_backoff(initial_ms, max_ms, attempt) ==
    LET step == Min(IF attempt >= 1 THEN attempt - 1 ELSE 0, 10)
        factor == 2^step
        cap == Max(max_ms, initial_ms)
    IN  Min(SatMulMs(initial_ms, factor), cap)

\* The milliseconds tried for initial_ms and max_ms
BackoffMillis == {0, 1, 2, 3, 4, 5, 1000, 2047, 2048, MsMax - 1, MsMax}

\* One call of each copy with the same arguments, and with the next attempt
CallReconnectBackoff ==
    /\ pc = "unit"
    /\ call = CallNone
    /\ \E initial_ms \in BackoffMillis, max_ms \in BackoffMillis, attempt \in 0..MaxAttempt :
         call' = [op |-> "reconnect_backoff", initial_ms |-> initial_ms, max_ms |-> max_ms,
                  attempt |-> attempt,
                  providers |-> reconnect_backoff(initial_ms, max_ms, attempt),
                  heartbeat |-> heartbeat_reconnect_backoff(initial_ms, max_ms, attempt),
                  providers_next |-> reconnect_backoff(initial_ms, max_ms, attempt + 1),
                  heartbeat_next |-> heartbeat_reconnect_backoff(initial_ms, max_ms, attempt + 1)]
    /\ UNCHANGED <<main_vars, stats, gate, now, gate_calls, glog, record_calls>>

SpecBackoff == InitArith /\ [][CallReconnectBackoff]_vars

\* C38: reconnect_backoff(initial_ms, max_ms, attempt) =
\* min(initial_ms * 2^min(max(attempt - 1, 0), 10) saturating,
\* max(max_ms, initial_ms)); it is non-decreasing in attempt, never below
\* min(initial_ms, its cap), never above max(max_ms, initial_ms), attempts 0
\* and 1 both give initial_ms, and the copies of providers.rs and heartbeat.rs
\* return the same value for all inputs.
C38_ReconnectBackoff ==
    call.op = "reconnect_backoff" =>
        LET cap == Max(call.max_ms, call.initial_ms)
            exponent == Min(Max(call.attempt - 1, 0), 10)
            product == Min(call.initial_ms * 2^exponent, MsMax)
        IN  /\ call.providers = Min(product, cap)
            /\ call.heartbeat = call.providers
            /\ call.heartbeat_next = call.providers_next
            /\ call.providers_next >= call.providers
            /\ call.providers >= Min(call.initial_ms, cap)
            /\ call.providers <= cap
            /\ call.attempt \in {0, 1} => call.providers = call.initial_ms

\* A call past the step limit whose product saturates and whose cap is
\* initial_ms, max_ms being smaller
C38_Witness ==
    /\ call.op = "reconnect_backoff"
    /\ call.attempt > 11
    /\ call.initial_ms * 1024 > MsMax
    /\ call.max_ms < call.initial_ms
    /\ call.providers = call.initial_ms
    /\ call.heartbeat = call.initial_ms

----------------------------------------------------------------------------
(* run_http_polling_window of heartbeat.rs: claim C39, stated over SpecWindow *)
(* Its ErrorLogGate is the copy of heartbeat.rs (lines 14-58), the same code *)
(* as that of shadow_route.rs, with the same interval of 15 s.               *)

HbWindowMs == 20000           \* window: the reconnect backoff of the caller
HbPollIntervalMs == 5000      \* poll_interval
HbFetchMs == {1000, 4000}     \* what an HTTPS request can take

\* print_block_if_new
print_block_if_new(lb, block) ==
    IF lb # Some(block)
    THEN [last_block |-> Some(block),
          lines |-> <<[stream |-> "stdout", kind |-> "info", text |-> "New Block", block |-> block]>>]
    ELSE [last_block |-> lb, lines |-> <<>>]

\* The top of the loop: when the window has elapsed, flush and return false;
\* otherwise the select! on ctrl_c and the request is entered
window_loop_top(g, t, c) ==
    IF t - c.started >= c.window
    THEN LET f == ErrorLogGate_flush(g, t, "HTTPS polling errors")
         IN  [pc |-> "hb_done", gate |-> f.gate, lines |-> f.lines,
              call |-> [c EXCEPT !.returned = Some(FALSE), !.path = "window elapsed before a poll"]]
    ELSE [pc |-> "hb_poll", gate |-> g, lines |-> <<>>, call |-> c]

\* After the select!: remaining = window.saturating_sub(started.elapsed());
\* when it is zero return false, otherwise wait_or_shutdown is entered
window_after_poll(t, c) ==
    LET elapsed == t - c.started
        remaining == IF c.window > elapsed THEN c.window - elapsed ELSE 0
    IN  IF remaining = 0
        THEN [pc |-> "hb_done",
              call |-> [c EXCEPT !.returned = Some(FALSE), !.path = "window elapsed after a poll"]]
        ELSE [pc |-> "hb_wait", call |-> c]

\* The function is entered, as main does after a failed connect_ws
InitWindow ==
    /\ pc = "hb_start"
    /\ idx = 0 /\ last_block \in {None, Some(1)} /\ processed_blocks = 0 /\ cur = CurDefault
    /\ out = <<>> /\ hist = <<>> /\ polls = 0 /\ max_blocks = None
    /\ min_profit = 0 /\ sigint = None
    /\ stats = StatsDefault /\ record_calls = 0 /\ call = CallNone
    /\ gate = ErrorLogGate_new(MinIntervalMs) /\ now = 0 /\ gate_calls = 0
    /\ glog = GlogInit

\* log_http_chain_id has answered; ErrorLogGate::new, started = Instant::now(),
\* and the first pass of the top of the loop
WindowStart ==
    /\ pc = "hb_start"
    /\ \E w \in {0, HbWindowMs}, d \in HbFetchMs :
         LET c == [op |-> "run_http_polling_window", window |-> w, started |-> now + d,
                   returned |-> None, path |-> "none"]
             top == window_loop_top(ErrorLogGate_new(MinIntervalMs), now + d, c)
         IN  /\ now' = now + d
             /\ gate' = top.gate
             /\ out' = out \o <<InfoLine("Mode: http-fallback")>> \o top.lines
             /\ pc' = top.pc
             /\ call' = top.call
    /\ UNCHANGED <<idx, last_block, processed_blocks, cur, stats, hist, polls, max_blocks,
                   min_profit, sigint, gate_calls, glog, record_calls>>

\* select!: fetch_block_number_http answers Ok(block)
WindowPollOk ==
    /\ pc = "hb_poll"
    /\ \E block \in BlockNumbers, d \in HbFetchMs :
         LET p == print_block_if_new(last_block, block)
             a == window_after_poll(now + d, call)
         IN  /\ now' = now + d
             /\ last_block' = p.last_block
             /\ out' = out \o p.lines
             /\ pc' = a.pc
             /\ call' = a.call
    /\ polls' = polls + 1
    /\ UNCHANGED <<idx, processed_blocks, cur, stats, gate, hist, max_blocks, min_profit,
                   sigint, gate_calls, glog, record_calls>>

\* select!: fetch_block_number_http answers Err
WindowPollErr ==
    /\ pc = "hb_poll"
    /\ \E d \in HbFetchMs :
         LET l == ErrorLogGate_log(gate, now + d, "HTTPS polling error (retrying)")
             a == window_after_poll(now + d, call)
         IN  /\ now' = now + d
             /\ gate' = l.gate
             /\ out' = out \o l.lines
             /\ pc' = a.pc
             /\ call' = a.call
    /\ gate_calls' = gate_calls + 1
    /\ polls' = polls + 1
    /\ UNCHANGED <<idx, last_block, processed_blocks, cur, stats, hist, max_blocks, min_profit,
                   sigint, glog, record_calls>>

\* select!: the ctrl_c branch completes while the request is pending
WindowPollCtrlC ==
    /\ pc = "hb_poll"
    /\ pc' = "hb_done"
    /\ call' = [call EXCEPT !.returned = Some(TRUE), !.path = "shutdown during a poll"]
    /\ UNCHANGED <<idx, last_block, processed_blocks, cur, stats, gate, now, out, hist, polls,
                   max_blocks, min_profit, sigint, gate_calls, glog, record_calls>>

\* wait_or_shutdown(poll_interval.min(remaining)): the sleep completes, then
\* the top of the loop
WindowWaitElapsed ==
    /\ pc = "hb_wait"
    /\ LET remaining == call.window - (now - call.started)
           sleep_for == Min(HbPollIntervalMs, remaining)
           top == window_loop_top(gate, now + sleep_for, call)
       IN  /\ now' = now + sleep_for
           /\ gate' = top.gate
           /\ out' = out \o top.lines
           /\ pc' = top.pc
           /\ call' = top.call
    /\ UNCHANGED <<idx, last_block, processed_blocks, cur, stats, hist, polls, max_blocks,
                   min_profit, sigint, gate_calls, glog, record_calls>>

\* wait_or_shutdown: ctrl_c completes during the sleep; flush, return true
WindowWaitCtrlC ==
    /\ pc = "hb_wait"
    /\ LET f == ErrorLogGate_flush(gate, now, "HTTPS polling errors")
       IN  /\ gate' = f.gate
           /\ out' = out \o f.lines
    /\ pc' = "hb_done"
    /\ call' = [call EXCEPT !.returned = Some(TRUE), !.path = "shutdown during the wait"]
    /\ UNCHANGED <<idx, last_block, processed_blocks, cur, stats, now, hist, polls, max_blocks,
                   min_profit, sigint, gate_calls, glog, record_calls>>

NextWindow ==
    \/ WindowStart
    \/ WindowPollOk
    \/ WindowPollErr
    \/ WindowPollCtrlC
    \/ WindowWaitElapsed
    \/ WindowWaitCtrlC

SpecWindow == InitWindow /\ [][NextWindow]_vars

\* The calls of log the lines written account for: the lines log printed plus
\* the counts reported by log lines and by flush lines
WindowAccounted ==
    Len(LinesOfKind(out, "log")) + SumReported(LinesOfKind(out, "log"))
        + SumReported(LinesOfKind(out, "flush"))

\* C39: every return path of run_http_polling_window (window elapsed before a
\* poll, window elapsed after a poll, shutdown during a poll, shutdown during
\* the wait between polls) flushes its ErrorLogGate first, so the count of
\* suppressed HTTPS polling errors is always reported before the window ends:
\* when the function has returned no suppressed call is left in the gate and
\* the lines written account for every call of log.
C39_FlushOnEveryReturn ==
    pc = "hb_done" =>
        /\ gate.suppressed = 0
        /\ WindowAccounted = gate_calls

====
